---- MODULE Spec2Model ----
(***************************************************************************)
(* graph-vulcan-assets: a consumer of the Vulcan asset stream that keeps   *)
(* the Security Graph Asset Inventory in sync.                             *)
(*                                                                         *)
(* Three layers are modelled:                                              *)
(*   - stream/kafka  AloProcessor.Process (at-least-once poll loop)        *)
(*   - vulcan        Client.ProcessAssets (metadata, version gate, payload)*)
(*   - cmd           run, assetHandler, refreshAsset, expireAsset          *)
(* Strings on which the code works character by character (versions,      *)
(* message keys, identifiers) are sequences of one-character strings.      *)
(***************************************************************************)
EXTENDS Integers, Sequences, FiniteSets, TLC

VARIABLES
    topic,      \* messages of the (single-partition) topic, oldest first
    committed,  \* offset committed to the broker for the consumer group
    stored,     \* librdkafka in-memory offset store (next offset to commit)
    pos,        \* fetch position of the current subscription
    pc,         \* where AloProcessor.Process stands
    cur,        \* offset of the message in hand (kmsg), 0 when none
    ret,        \* result of the last Process call
    ctxDone,    \* the context passed to run/Process is cancelled
    dpc,        \* where the driver loop `run` stands
    retry,      \* cfg.RetryDuration # 0
    calls,      \* offsets given to the message handler by the current Process run
    acalls,     \* asset-handler invocations (payload, isNil) of the current run
    runOK,      \* offsets whose handler call returned nil in the current run
    runStored,  \* offsets of the messages stored by the current Process run
    runStart,   \* fetch position the current Process run started from
    prevFail,   \* offset at which the previous run's handler failed, or 0
    handledOK,  \* offsets whose message handler has returned nil at least once
    graph,      \* the Asset Inventory: assets, teams, owns and parent-of
    clock,      \* time.Now()
    lastEv,     \* last event given to assetHandler, with its outcome
    ref,        \* inventory after handling every message once, in order
    refN,       \* number of messages of the topic applied to ref
    input,      \* argument of a function called on its own (by a unit test)
    output      \* what that call returned

vars == <<topic, committed, stored, pos, pc, cur, ret, ctxDone, dpc, retry,
          calls, acalls, runOK, runStored, runStart, prevFail, handledOK,
          graph, clock, lastEv, ref, refN, input, output>>

streamVars == <<topic, committed, stored, pos, pc, cur, ret, ctxDone, dpc,
                retry, calls, acalls, runOK, runStored, runStart, prevFail,
                handledOK>>

engineVars == <<graph, clock, lastEv, ref, refN>>

unitVars == <<input, output>>

----------------------------------------------------------------------------
(* Strings *)

Digits == {"0", "1", "2", "3", "4", "5", "6", "7", "8", "9"}

RECURSIVE SplitAcc(_, _, _, _)
SplitAcc(s, sep, parts, part) ==
    IF s = <<>> THEN Append(parts, part)
    ELSE IF Head(s) = sep
         THEN SplitAcc(Tail(s), sep, Append(parts, part), <<>>)
         ELSE SplitAcc(Tail(s), sep, parts, Append(part, Head(s)))

\* strings.Split(s, sep) for a one-character separator
Split(s, sep) == SplitAcc(s, sep, <<>>, <<>>)

DigitVal(c) ==
    CASE c = "0" -> 0 [] c = "1" -> 1 [] c = "2" -> 2 [] c = "3" -> 3
      [] c = "4" -> 4 [] c = "5" -> 5 [] c = "6" -> 6 [] c = "7" -> 7
      [] c = "8" -> 8 [] c = "9" -> 9

RECURSIVE DigitsVal(_, _)
DigitsVal(s, acc) ==
    IF s = <<>> THEN acc ELSE DigitsVal(Tail(s), 10 * acc + DigitVal(Head(s)))

\* strconv.Atoi: an optional sign, then one or more decimal digits
AtoiBody(s) == IF s # <<>> /\ Head(s) \in {"+", "-"} THEN Tail(s) ELSE s

AtoiOK(s) ==
    /\ AtoiBody(s) # <<>>
    /\ \A i \in 1..Len(AtoiBody(s)) : AtoiBody(s)[i] \in Digits

AtoiVal(s) ==
    IF s # <<>> /\ Head(s) = "-" THEN 0 - DigitsVal(AtoiBody(s), 0)
    ELSE DigitsVal(AtoiBody(s), 0)

----------------------------------------------------------------------------
(* vulcan: the event decoder *)

MajorVersion == 0

\* A version gate that checks the shape of the version but not its major
supportedVersionAnyMajor(v) ==
    IF v = <<>> THEN FALSE
    ELSE LET w == IF v[1] = "v" THEN Tail(v) ELSE v
             parts == Split(w, ".")
         IN  Len(parts) >= 3 /\ AtoiOK(parts[1])

supportedVersion(v) ==
    IF v = <<>> THEN FALSE
    ELSE LET w == IF v[1] = "v" THEN Tail(v) ELSE v
             parts == Split(w, ".")
         IN  IF Len(parts) < 3 THEN FALSE
             ELSE IF ~AtoiOK(parts[1]) THEN FALSE
             ELSE AtoiVal(parts[1]) = MajorVersion

RECURSIVE MetaGet(_, _, _)
MetaGet(meta, key, acc) ==
    IF meta = <<>> THEN acc
    ELSE MetaGet(Tail(meta), key,
                 IF Head(meta).Key = key THEN Head(meta).Value ELSE acc)

\* A parseMetadata that asks for the version only
parseMetadataVersionOnly(msg) ==
    LET version    == MetaGet(msg.Metadata, "version", <<>>)
        typ        == MetaGet(msg.Metadata, "type", <<>>)
        identifier == MetaGet(msg.Metadata, "identifier", <<>>)
    IN  IF version = <<>>
        THEN [err |-> TRUE, version |-> <<>>, typ |-> <<>>, identifier |-> <<>>]
        ELSE [err |-> FALSE, version |-> version, typ |-> typ,
              identifier |-> identifier]

parseMetadata(msg) ==
    LET version    == MetaGet(msg.Metadata, "version", <<>>)
        typ        == MetaGet(msg.Metadata, "type", <<>>)
        identifier == MetaGet(msg.Metadata, "identifier", <<>>)
    IN  IF version = <<>> \/ typ = <<>> \/ identifier = <<>>
        THEN [err |-> TRUE, version |-> <<>>, typ |-> <<>>, identifier |-> <<>>]
        ELSE [err |-> FALSE, version |-> version, typ |-> typ,
              identifier |-> identifier]

\* A parseMessageID that takes the first two parts of a key of two or more
parseMessageIDFirstTwo(id) ==
    LET parts == Split(id, "/")
    IN  IF Len(parts) < 2
        THEN [err |-> TRUE, teamID |-> <<>>, assetID |-> <<>>]
        ELSE [err |-> FALSE, teamID |-> parts[1], assetID |-> parts[2]]

\* A parseMessageID that reads the key as asset/team
parseMessageIDSwapped(id) ==
    LET parts == Split(id, "/")
    IN  IF Len(parts) # 2
        THEN [err |-> TRUE, teamID |-> <<>>, assetID |-> <<>>]
        ELSE [err |-> FALSE, teamID |-> parts[2], assetID |-> parts[1]]

parseMessageID(id) ==
    LET parts == Split(id, "/")
    IN  IF Len(parts) # 2
        THEN [err |-> TRUE, teamID |-> <<>>, assetID |-> <<>>]
        ELSE [err |-> FALSE, teamID |-> parts[1], assetID |-> parts[2]]

\* The zero AssetPayload
ZeroPayload ==
    [ID |-> <<>>, Team |-> [ID |-> <<>>, Name |-> <<>>], AssetType |-> <<>>,
     Identifier |-> <<>>, Annotations |-> <<>>]

\* The message handler that ProcessAssets hands to Process, up to its call of
\* the asset handler h: res = "call" means h(payload, isNil) is invoked and
\* its result returned; any other res is the error returned without calling h.
decodeMsg(msg) ==
    LET md == parseMetadata(msg)
    IN  IF md.err
        THEN [res |-> "errMetadata", payload |-> ZeroPayload, isNil |-> FALSE]
        ELSE IF ~supportedVersion(md.version)
        THEN [res |-> "errUnsupportedVersion", payload |-> ZeroPayload,
              isNil |-> FALSE]
        ELSE IF msg.Value.kind # "nil"
        THEN IF msg.Value.kind = "bad"
             THEN [res |-> "errUnmarshal", payload |-> ZeroPayload,
                   isNil |-> FALSE]
             ELSE [res |-> "call", payload |-> msg.Value.body, isNil |-> FALSE]
        ELSE LET mid == parseMessageID(msg.Key)
             IN  IF mid.err
                 THEN [res |-> "errMessageID", payload |-> ZeroPayload,
                       isNil |-> FALSE]
                 ELSE [res |-> "call",
                       payload |-> [ZeroPayload EXCEPT
                                      !.ID = mid.assetID,
                                      !.AssetType = md.typ,
                                      !.Identifier = md.identifier,
                                      !.Team = [ID |-> mid.teamID, Name |-> <<>>]],
                       isNil |-> TRUE]

----------------------------------------------------------------------------
(* Messages of the topic *)

MaxLog == 3

HostnameT == <<"Hostname">>
AWSAccountT == <<"AWSAccount">>
TeamT1 == <<"t", "1">>
TeamT2 == <<"t", "2">>
IdentA == <<"a">>
V020 == <<"v", "0", ".", "2", ".", "0">>
V100 == <<"1", ".", "0", ".", "0">>

Meta(version, typ, identifier) ==
    << [Key |-> "version", Value |-> version],
       [Key |-> "type", Value |-> typ],
       [Key |-> "identifier", Value |-> identifier] >>

MsgKey(teamID, assetID) == teamID \o <<"/">> \o assetID

Payload(teamID, typ, identifier, annotations) ==
    [ID |-> identifier, Team |-> [ID |-> teamID, Name |-> teamID],
     AssetType |-> typ, Identifier |-> identifier, Annotations |-> annotations]

UpsertMsg(version, teamID, typ, identifier, annotations) ==
    [Key |-> MsgKey(teamID, identifier),
     Value |-> [kind |-> "json",
                body |-> Payload(teamID, typ, identifier, annotations)],
     Metadata |-> Meta(version, typ, identifier)]

TombstoneMsg(version, teamID, typ, identifier) ==
    [Key |-> MsgKey(teamID, identifier),
     Value |-> [kind |-> "nil", body |-> ZeroPayload],
     Metadata |-> Meta(version, typ, identifier)]

\* What the stub-handler specification lets a producer write to the topic
StreamMsgs ==
    { UpsertMsg(V020, TeamT1, HostnameT, IdentA, <<>>),
      TombstoneMsg(V020, TeamT1, HostnameT, IdentA),
      UpsertMsg(V100, TeamT1, HostnameT, IdentA, <<>>),
      TombstoneMsg(V100, TeamT1, HostnameT, IdentA),
      [UpsertMsg(V020, TeamT1, HostnameT, IdentA, <<>>) EXCEPT
         !.Metadata = <<[Key |-> "version", Value |-> V020]>>],
      [UpsertMsg(V020, TeamT1, HostnameT, IdentA, <<>>) EXCEPT
         !.Value = [kind |-> "bad", body |-> ZeroPayload]],
      [TombstoneMsg(V020, TeamT1, HostnameT, IdentA) EXCEPT !.Key = IdentA] }

----------------------------------------------------------------------------
(* The Asset Inventory, as package inventory's client sees it.  An asset   *)
(* or team ID is the entity's index in its sequence.  Time is a number;    *)
(* ZeroTime stands for both time.Time{} and a nil *time.Time.              *)

\* inventory.Unexpired
Unexpired == 9999

\* time.Time{}
ZeroTime == 0

EmptyGraph == [assets |-> <<>>, teams |-> <<>>, owns |-> {}, parents |-> {}]

Ids(n) == [i \in 1..n |-> i]

\* A Client.Assets that leaves out the assets that have expired
AssetsUnexpired(g, typ, identifier) ==
    SelectSeq(Ids(Len(g.assets)),
              LAMBDA i : /\ g.assets[i].Type = typ
                         /\ g.assets[i].Identifier = identifier
                         /\ g.assets[i].Expiration = Unexpired)

\* Client.Assets(typ, identifier, time.Time{}, Pagination{}): IDs of the matches
Assets(g, typ, identifier) ==
    SelectSeq(Ids(Len(g.assets)),
              LAMBDA i : /\ g.assets[i].Type = typ
                         /\ g.assets[i].Identifier = identifier)

\* Client.CreateAsset(typ, identifier, timestamp, expiration)
CreateAsset(g, typ, identifier, timestamp, expiration) ==
    [g EXCEPT !.assets = Append(@, [Type |-> typ, Identifier |-> identifier,
                                    FirstSeen |-> timestamp,
                                    LastSeen |-> timestamp,
                                    Expiration |-> expiration])]

\* Client.UpdateAsset(id, typ, identifier, timestamp, expiration)
UpdateAsset(g, id, typ, identifier, timestamp, expiration) ==
    [g EXCEPT !.assets[id] = [@ EXCEPT !.Type = typ,
                                       !.Identifier = identifier,
                                       !.LastSeen = timestamp,
                                       !.Expiration = expiration]]

\* A Client.Teams that returns every team
TeamsAll(g, identifier) == Ids(Len(g.teams))

\* Client.Teams(identifier, Pagination{}): IDs of the matches
Teams(g, identifier) ==
    SelectSeq(Ids(Len(g.teams)), LAMBDA i : g.teams[i].Identifier = identifier)

\* Client.CreateTeam(identifier, name)
CreateTeam(g, identifier, name) ==
    [g EXCEPT !.teams = Append(@, [Identifier |-> identifier, Name |-> name])]

\* Client.UpdateTeam(id, identifier, name)
UpdateTeam(g, id, identifier, name) ==
    [g EXCEPT !.teams[id] = [Identifier |-> identifier, Name |-> name]]

\* Client.Owners(assetID, Pagination{})
Owners(g, assetID) == {o \in g.owns : o.AssetID = assetID}

\* A Client.UpsertOwner that removes the owns relation it is to end
UpsertOwnerDeleteEnded(g, assetID, teamID, startTime, endTime) ==
    [g EXCEPT !.owns =
        {o \in @ : ~(o.AssetID = assetID /\ o.TeamID = teamID)} \cup
        IF endTime # ZeroTime THEN {}
        ELSE {[AssetID |-> assetID, TeamID |-> teamID,
               StartTime |-> startTime, EndTime |-> endTime]}]

\* Client.UpsertOwner(assetID, teamID, startTime, endTime): one owns relation
\* per asset and team; a zero endTime is not sent and leaves it without end.
UpsertOwner(g, assetID, teamID, startTime, endTime) ==
    [g EXCEPT !.owns =
        {o \in @ : ~(o.AssetID = assetID /\ o.TeamID = teamID)} \cup
        {[AssetID |-> assetID, TeamID |-> teamID, StartTime |-> startTime,
          EndTime |-> endTime]}]

\* The parent-of relations of a set, as the list the inventory returns
\* (here by ID of the asset at the other end).
EdgeList(g, edges, end) ==
    LET has(i) == \E e \in edges : e[end] = i
        ids    == SelectSeq(Ids(Len(g.assets)), has)
    IN  [k \in 1..Len(ids) |-> CHOOSE e \in edges : e[end] = ids[k]]

\* Client.Parents(assetID, Pagination{})
Parents(g, assetID) ==
    EdgeList(g, {e \in g.parents : e.ChildID = assetID}, "ParentID")

\* Client.Children(assetID, Pagination{})
Children(g, assetID) ==
    EdgeList(g, {e \in g.parents : e.ParentID = assetID}, "ChildID")

\* Client.UpsertParent(childID, parentID, timestamp, expiration): the relation
\* keeps its first_seen when it exists already.
UpsertParent(g, childID, parentID, timestamp, expiration) ==
    LET old == {e \in g.parents : e.ChildID = childID /\ e.ParentID = parentID}
        fs  == IF old = {} THEN timestamp ELSE (CHOOSE e \in old : TRUE).FirstSeen
    IN  [g EXCEPT !.parents =
            (@ \ old) \cup
            {[ChildID |-> childID, ParentID |-> parentID, FirstSeen |-> fs,
              LastSeen |-> timestamp, Expiration |-> expiration]}]

----------------------------------------------------------------------------
(* cmd/graph-vulcan-assets: the asset handler.  A handler runs against a    *)
(* client state c = [g, fuel, clk, tick]: g is the inventory, fuel the      *)
(* number of inventory calls that succeed before one fails (negative: none  *)
(* fails), clk the clock, and tick the number of the time.Now() call at     *)
(* which the clock is found to have advanced (0: it does not advance).      *)
(* c.w lists the writes that the handler has sent to the inventory and c.t  *)
(* the values that time.Now() has returned to it.                           *)

Fails(c) == c.fuel = 0

\* The state after a successful inventory call that leaves inventory g
Called(c, g) == [c EXCEPT !.g = g, !.fuel = IF @ > 0 THEN @ - 1 ELSE @]

\* A write sent to the inventory: the call, the asset (or child) ID, the team
\* (or parent) ID, the type and identifier, the timestamp (or start time) and
\* the expiration (or end time)
Write(op, id, other, key, time, end) ==
    [op |-> op, id |-> id, other |-> other, key |-> key, time |-> time,
     end |-> end]

\* The state after a successful write that leaves inventory g
Wrote(c, g, write) == [Called(c, g) EXCEPT !.w = Append(@, write)]

\* time.Now()
NowT(c) == IF c.tick = 1 THEN c.clk + 1 ELSE c.clk

Read(c) ==
    LET n == NowT(c)
    IN  [c EXCEPT !.clk = n, !.tick = IF @ > 0 THEN @ - 1 ELSE 0,
                  !.t = Append(@, n)]

Fail(c, err) == [c |-> c, err |-> err, id |-> 0]

\* An upsertAsset that leaves an asset it finds as it is
upsertAssetCreateOnly(c, typ, identifier) ==
    IF Fails(c) THEN Fail(c, "could not get assets")
    ELSE LET assets == Assets(c.g, typ, identifier)
             c2     == Read(Called(c, c.g))
         IN  CASE Len(assets) = 1 -> [c |-> c2, err |-> "nil", id |-> assets[1]]
               [] Len(assets) = 0 ->
                    IF Fails(c2) THEN Fail(c2, "could not create asset")
                    ELSE [c |-> Wrote(c2, CreateAsset(c2.g, typ, identifier,
                                                      c2.clk, Unexpired),
                                      Write("CreateAsset", 0, 0,
                                            <<typ, identifier>>, c2.clk,
                                            Unexpired)),
                          err |-> "nil", id |-> Len(c2.g.assets) + 1]
               [] OTHER -> Fail(c2, "duplicated asset")

upsertAsset(c, typ, identifier) ==
    IF Fails(c) THEN Fail(c, "could not get assets")
    ELSE LET assets == Assets(c.g, typ, identifier)
             c1     == Called(c, c.g)
             now    == NowT(c1)
             c2     == Read(c1)
         IN  CASE Len(assets) = 1 ->
                    IF Fails(c2) THEN Fail(c2, "could not update asset")
                    ELSE [c |-> Wrote(c2, UpdateAsset(c2.g, assets[1], typ,
                                                      identifier, now, Unexpired),
                                      Write("UpdateAsset", assets[1], 0,
                                            <<typ, identifier>>, now, Unexpired)),
                          err |-> "nil", id |-> assets[1]]
               [] Len(assets) = 0 ->
                    IF Fails(c2) THEN Fail(c2, "could not create asset")
                    ELSE [c |-> Wrote(c2, CreateAsset(c2.g, typ, identifier,
                                                      now, Unexpired),
                                      Write("CreateAsset", 0, 0,
                                            <<typ, identifier>>, now, Unexpired)),
                          err |-> "nil", id |-> Len(c2.g.assets) + 1]
               [] OTHER -> Fail(c1, "duplicated asset")

upsertTeam(c, vteam) ==
    IF Fails(c) THEN Fail(c, "could not get teams")
    ELSE LET teams == Teams(c.g, vteam.ID)
             c1    == Called(c, c.g)
         IN  CASE Len(teams) = 1 ->
                    IF Fails(c1) THEN Fail(c1, "could not update team")
                    ELSE [c |-> Wrote(c1, UpdateTeam(c1.g, teams[1], vteam.ID,
                                                     vteam.Name),
                                      Write("UpdateTeam", 0, teams[1],
                                            <<vteam.ID, vteam.Name>>,
                                            ZeroTime, ZeroTime)),
                          err |-> "nil", id |-> teams[1]]
               [] Len(teams) = 0 ->
                    IF Fails(c1) THEN Fail(c1, "could not create team")
                    ELSE [c |-> Wrote(c1, CreateTeam(c1.g, vteam.ID, vteam.Name),
                                      Write("CreateTeam", 0, 0,
                                            <<vteam.ID, vteam.Name>>,
                                            ZeroTime, ZeroTime)),
                          err |-> "nil", id |-> Len(c1.g.teams) + 1]
               [] OTHER -> Fail(c1, "duplicated team")

\* A setOwner that starts the owns relation anew on every refresh
setOwnerStartNow(found, old, now) == now

\* setOwner: the start time given to UpsertOwner
setOwnerStart(found, old, now) == IF found THEN old ELSE now

setOwner(c, asset, team) ==
    IF Fails(c) THEN Fail(c, "could not get owners")
    ELSE LET owners == Owners(c.g, asset)
             c1     == Called(c, c.g)
             now    == NowT(c1)
             c2     == Read(c1)
             mine   == {o \in owners : o.TeamID = team}
             start  == setOwnerStart(mine # {},
                                     IF mine # {}
                                     THEN (CHOOSE o \in mine : TRUE).StartTime
                                     ELSE ZeroTime,
                                     now)
         IN  IF Fails(c2) THEN Fail(c2, "could not upsert owner")
             ELSE [c |-> Wrote(c2, UpsertOwner(c2.g, asset, team, start,
                                               ZeroTime),
                               Write("UpsertOwner", asset, team, <<>>, start,
                                     ZeroTime)),
                   err |-> "nil", id |-> 0]

\* cfg.AWSAccountAnnotationKey
AWSAccountAnnotationKey == "discovery/aws/account"

ArnPrefix == <<"a", "r", "n", ":", "a", "w", "s", ":", "i", "a", "m", ":", ":">>
ArnSuffix == <<":", "r", "o", "o", "t">>

AllDigits(s) == \A i \in 1..Len(s) : s[i] \in Digits

\* A short form that takes any twelve characters
shortAWSAccountReAnyChar(id) == Len(id) = 12

\* ^[0-9]{12}$
shortAWSAccountRe(id) == Len(id) = 12 /\ AllDigits(id)

\* ^arn:aws:iam::[0-9]{12}:root$
longAWSAccountRe(id) ==
    /\ Len(id) = Len(ArnPrefix) + 12 + Len(ArnSuffix)
    /\ SubSeq(id, 1, Len(ArnPrefix)) = ArnPrefix
    /\ AllDigits(SubSeq(id, Len(ArnPrefix) + 1, Len(ArnPrefix) + 12))
    /\ SubSeq(id, Len(ArnPrefix) + 13, Len(id)) = ArnSuffix

normalizeAWSAccountID(id) ==
    IF longAWSAccountRe(id) THEN [err |-> FALSE, id |-> id]
    ELSE IF shortAWSAccountRe(id)
    THEN [err |-> FALSE, id |-> ArnPrefix \o id \o ArnSuffix]
    ELSE [err |-> TRUE, id |-> <<>>]

\* A setAWSAccount that writes the parent-of relation as expiring now
setAWSAccountExpiring(c, asset, awsAccount) ==
    LET norm == normalizeAWSAccountID(awsAccount)
    IN  IF norm.err THEN Fail(c, "could not normalize AWS account ID")
        ELSE LET a   == upsertAsset(c, AWSAccountT, norm.id)
                 now == NowT(a.c)
                 c1  == Read(a.c)
             IN  IF a.err # "nil" THEN Fail(a.c, "could not upsert AWS account")
                 ELSE IF Fails(c1) THEN Fail(c1, "could not upsert parent")
                 ELSE [c |-> Wrote(c1, UpsertParent(c1.g, asset, a.id, now, now),
                                   Write("UpsertParent", asset, a.id, <<>>, now,
                                         now)),
                       err |-> "nil", id |-> 0]

setAWSAccount(c, asset, awsAccount) ==
    LET norm == normalizeAWSAccountID(awsAccount)
    IN  IF norm.err THEN Fail(c, "could not normalize AWS account ID")
        ELSE LET a   == upsertAsset(c, AWSAccountT, norm.id)
                 now == NowT(a.c)
                 c1  == Read(a.c)
             IN  IF a.err # "nil" THEN Fail(a.c, "could not upsert AWS account")
                 ELSE IF Fails(c1) THEN Fail(c1, "could not upsert parent")
                 ELSE [c |-> Wrote(c1, UpsertParent(c1.g, asset, a.id, now,
                                                    Unexpired),
                                   Write("UpsertParent", asset, a.id, <<>>, now,
                                         Unexpired)),
                       err |-> "nil", id |-> 0]

\* A refreshAsset that takes the value of every annotation for an AWS account
RECURSIVE setAWSAccountsAnyKey(_, _, _)
setAWSAccountsAnyKey(c, asset, annotations) ==
    IF annotations = <<>> THEN [c |-> c, err |-> "nil", id |-> 0]
    ELSE LET r == setAWSAccount(c, asset, Head(annotations).Value)
         IN  IF r.err # "nil" THEN r
             ELSE setAWSAccountsAnyKey(r.c, asset, Tail(annotations))

\* refreshAsset: the loop over payload.Annotations
RECURSIVE setAWSAccounts(_, _, _)
setAWSAccounts(c, asset, annotations) ==
    IF annotations = <<>> THEN [c |-> c, err |-> "nil", id |-> 0]
    ELSE IF Head(annotations).Key # AWSAccountAnnotationKey
    THEN setAWSAccounts(c, asset, Tail(annotations))
    ELSE LET r == setAWSAccount(c, asset, Head(annotations).Value)
         IN  IF r.err # "nil" THEN r
             ELSE setAWSAccounts(r.c, asset, Tail(annotations))

\* A refreshAsset that makes the parent-of relations to its asset unexpired
refreshAssetWithChildren(c, payload) ==
    LET a == upsertAsset(c, payload.AssetType, payload.Identifier)
        t == upsertTeam(a.c, payload.Team)
        o == setOwner(t.c, a.id, t.id)
        r == setAWSAccounts(o.c, a.id, payload.Annotations)
    IN  IF a.err # "nil" THEN a
        ELSE IF t.err # "nil" THEN t
        ELSE IF o.err # "nil" THEN o
        ELSE IF r.err # "nil" THEN r
        ELSE [r EXCEPT !.c.g.parents =
                {IF e.ParentID = a.id THEN [e EXCEPT !.Expiration = Unexpired]
                 ELSE e : e \in @}]

\* A refreshAsset that looks at the AWS accounts of the annotations before
\* it writes anything
refreshAssetValidateFirst(c, payload) ==
    IF \E i \in DOMAIN payload.Annotations :
          /\ payload.Annotations[i].Key = AWSAccountAnnotationKey
          /\ normalizeAWSAccountID(payload.Annotations[i].Value).err
    THEN Fail(c, "could not normalize AWS account ID")
    ELSE LET a == upsertAsset(c, payload.AssetType, payload.Identifier)
         IN  IF a.err # "nil" THEN a
             ELSE LET t == upsertTeam(a.c, payload.Team)
                  IN  IF t.err # "nil" THEN t
                      ELSE LET o == setOwner(t.c, a.id, t.id)
                           IN  IF o.err # "nil" THEN o
                               ELSE setAWSAccounts(o.c, a.id,
                                                   payload.Annotations)

\* A refreshAsset that sets the owner of an asset it finds before it upserts
\* the asset
refreshAssetOwnerFirst(c, payload) ==
    LET ids == Assets(c.g, payload.AssetType, payload.Identifier)
        t   == upsertTeam(c, payload.Team)
    IN  IF t.err # "nil" THEN t
        ELSE LET o == IF Len(ids) = 1 THEN setOwner(t.c, ids[1], t.id)
                      ELSE [c |-> t.c, err |-> "nil", id |-> 0]
             IN  IF o.err # "nil" THEN o
                 ELSE LET a == upsertAsset(o.c, payload.AssetType,
                                           payload.Identifier)
                      IN  IF a.err # "nil" THEN a
                          ELSE LET o2 == IF Len(ids) = 1
                                         THEN [c |-> a.c, err |-> "nil", id |-> 0]
                                         ELSE setOwner(a.c, a.id, t.id)
                               IN  IF o2.err # "nil" THEN o2
                                   ELSE setAWSAccounts(o2.c, a.id,
                                                       payload.Annotations)

refreshAsset(c, payload) ==
    LET a == upsertAsset(c, payload.AssetType, payload.Identifier)
    IN  IF a.err # "nil" THEN a
        ELSE LET t == upsertTeam(a.c, payload.Team)
             IN  IF t.err # "nil" THEN t
                 ELSE LET o == setOwner(t.c, a.id, t.id)
                      IN  IF o.err # "nil" THEN o
                          ELSE setAWSAccounts(o.c, a.id, payload.Annotations)

\* An expireAsset for which an ended owns relation still counts
isActiveAlways(o) == TRUE

\* An owns relation without end time
isActive(o) == o.EndTime = ZeroTime

\* expireAsset never finds another owner
otherActiveNever(owners, team) == FALSE

\* expireAsset: the flag active after the loop over the owners
otherActive(owners, team) ==
    \E o \in owners : o.TeamID # team /\ isActive(o)

\* expireAsset takes every parent-of relation for expired
alreadyExpiredAll(expiration, now) == TRUE

\* An expireAsset that writes the relations that expire at now again
alreadyExpiredBefore(expiration, now) == expiration < now

\* expireAsset: p.Expiration.Before(now) || p.Expiration.Equal(now)
alreadyExpired(expiration, now) == expiration < now \/ expiration = now

\* expireAsset: the loops over the parents and over the children
RECURSIVE expireParents(_, _, _)
expireParents(c, edges, now) ==
    IF edges = <<>> THEN [c |-> c, err |-> "nil", id |-> 0]
    ELSE LET p == Head(edges)
         IN  IF alreadyExpired(p.Expiration, now)
             THEN expireParents(c, Tail(edges), now)
             ELSE IF Fails(c)
             THEN Fail(c, "error expiring parent-of relations")
             ELSE expireParents(Wrote(c, UpsertParent(c.g, p.ChildID, p.ParentID,
                                                      now, now),
                                      Write("UpsertParent", p.ChildID,
                                            p.ParentID, <<>>, now, now)),
                                Tail(edges), now)

\* expireAsset, from the expiration of the asset on
expireCascade(c, payload, asset, now) ==
    IF Fails(c) THEN Fail(c, "could not expire asset")
    ELSE LET c1 == Wrote(c, UpdateAsset(c.g, asset, payload.AssetType,
                                        payload.Identifier, now, now),
                         Write("UpdateAsset", asset, 0,
                               <<payload.AssetType, payload.Identifier>>,
                               now, now))
         IN  IF Fails(c1) THEN Fail(c1, "could not get parents")
             ELSE LET ps == expireParents(Called(c1, c1.g),
                                          Parents(c1.g, asset), now)
                  IN  IF ps.err # "nil" THEN ps
                      ELSE IF Fails(ps.c)
                      THEN Fail(ps.c, "could not get children")
                      ELSE expireParents(Called(ps.c, ps.c.g),
                                         Children(ps.c.g, asset), now)

\* An expireAsset that leaves the asset alone when the team of the event has
\* no owns relation on it
expireOwnedByTeamOnly(c, payload, asset, team) ==
    LET now == NowT(c)
        c1  == Read(c)
    IN  IF Fails(c1) THEN Fail(c1, "error getting owners")
        ELSE LET owners == Owners(c1.g, asset)
                 c2     == Called(c1, c1.g)
                 mine   == {o \in owners : o.TeamID = team}
                 active == otherActive(owners, team)
             IN  IF mine = {} THEN [c |-> c2, err |-> "nil", id |-> 0]
                 ELSE IF Fails(c2) THEN Fail(c2, "could not expire owner")
                 ELSE LET c3 == Wrote(c2,
                                  UpsertOwner(c2.g, asset, team,
                                    (CHOOSE o \in mine : TRUE).StartTime, now),
                                  Write("UpsertOwner", asset, team, <<>>,
                                    (CHOOSE o \in mine : TRUE).StartTime, now))
                      IN  IF active THEN [c |-> c3, err |-> "nil", id |-> 0]
                          ELSE expireCascade(c3, payload, asset, now)

\* expireAsset, from the capture of now on
expireOwned(c, payload, asset, team) ==
    LET now == NowT(c)
        c1  == Read(c)
    IN  IF Fails(c1) THEN Fail(c1, "error getting owners")
        ELSE LET owners == Owners(c1.g, asset)
                 c2     == Called(c1, c1.g)
                 mine   == {o \in owners : o.TeamID = team}
                 active == otherActive(owners, team)
             IN  IF mine # {} /\ Fails(c2)
                 THEN Fail(c2, "could not expire owner")
                 ELSE LET c3 == IF mine = {} THEN c2
                                ELSE Wrote(c2,
                                       UpsertOwner(c2.g, asset, team,
                                         (CHOOSE o \in mine : TRUE).StartTime,
                                         now),
                                       Write("UpsertOwner", asset, team, <<>>,
                                         (CHOOSE o \in mine : TRUE).StartTime,
                                         now))
                      IN  IF active THEN [c |-> c3, err |-> "nil", id |-> 0]
                          ELSE expireCascade(c3, payload, asset, now)

\* An expireAsset that takes the first of several matching assets
expireAssetFirstMatch(c, payload) ==
    IF Fails(c) THEN Fail(c, "could not get assets")
    ELSE LET assets == Assets(c.g, payload.AssetType, payload.Identifier)
             c1     == Called(c, c.g)
         IN  IF Len(assets) = 0 THEN [c |-> c1, err |-> "nil", id |-> 0]
             ELSE IF Fails(c1) THEN Fail(c1, "could not get teams")
             ELSE LET teams == Teams(c1.g, payload.Team.ID)
                      c2    == Called(c1, c1.g)
                  IN  IF Len(teams) = 0
                      THEN [c |-> c2, err |-> "nil", id |-> 0]
                      ELSE IF Len(teams) > 1 THEN Fail(c2, "duplicated team")
                      ELSE expireOwned(c2, payload, assets[1], teams[1])

expireAsset(c, payload) ==
    IF Fails(c) THEN Fail(c, "could not get assets")
    ELSE LET assets == Assets(c.g, payload.AssetType, payload.Identifier)
             c1     == Called(c, c.g)
         IN  IF Len(assets) = 0 THEN [c |-> c1, err |-> "nil", id |-> 0]
             ELSE IF Len(assets) > 1 THEN Fail(c1, "duplicated asset")
             ELSE IF Fails(c1) THEN Fail(c1, "could not get teams")
             ELSE LET teams == Teams(c1.g, payload.Team.ID)
                      c2    == Called(c1, c1.g)
                  IN  IF Len(teams) = 0
                      THEN [c |-> c2, err |-> "nil", id |-> 0]
                      ELSE IF Len(teams) > 1 THEN Fail(c2, "duplicated team")
                      ELSE expireOwned(c2, payload, assets[1], teams[1])

assetHandler(c, payload, isNil) ==
    IF isNil THEN expireAsset(c, payload) ELSE refreshAsset(c, payload)

\* Errors of the asset handler that are not a failed call of the inventory
OwnErrors ==
    {"could not normalize AWS account ID", "duplicated asset", "duplicated team"}

----------------------------------------------------------------------------
(* Asset events given to the asset handler *)

MaxTime == 2
MaxEvents == 3
MaxScen == 4
MaxTick == 4

ShortX == [i \in 1..12 |-> "0"]
ShortY == [i \in 1..12 |-> "1"]
LongX == ArnPrefix \o ShortX \o ArnSuffix
BadX == <<"x">>

Ann(value) == <<[Key |-> AWSAccountAnnotationKey, Value |-> value]>>

AssetKeys == {<<HostnameT, IdentA>>, <<AWSAccountT, LongX>>}

EngineMsgs ==
    { UpsertMsg(V020, t, HostnameT, IdentA, a) :
        t \in {TeamT1, TeamT2}, a \in {<<>>, Ann(ShortX)} }
    \cup { UpsertMsg(V020, t, AWSAccountT, LongX, <<>>) : t \in {TeamT1, TeamT2} }
    \cup { UpsertMsg(V020, TeamT1, AWSAccountT, LongX, Ann(ShortY)) }
    \cup { UpsertMsg(V020, TeamT1, HostnameT, IdentA, a) :
             a \in {Ann(LongX), Ann(BadX),
                    <<[Key |-> "other", Value |-> ShortX]>>,
                    <<[Key |-> "other", Value |-> ShortY]>> \o Ann(ShortX)} }
    \cup { TombstoneMsg(V020, t, k[1], k[2]) :
             t \in {TeamT1, TeamT2}, k \in AssetKeys }

\* (payload, isNil) as ProcessAssets hands them to the asset handler
EngineEvents ==
    {[payload |-> decodeMsg(m).payload, isNil |-> decodeMsg(m).isNil] :
       m \in EngineMsgs}

ScenMsgs ==
    { UpsertMsg(V020, t, HostnameT, IdentA, a) :
        t \in {TeamT1, TeamT2}, a \in {<<>>, Ann(ShortX)} }
    \cup { TombstoneMsg(V020, t, k[1], k[2]) :
             t \in {TeamT1, TeamT2}, k \in AssetKeys }

ScenEvents ==
    {[payload |-> decodeMsg(m).payload, isNil |-> decodeMsg(m).isNil] :
       m \in ScenMsgs}

NoEvent ==
    [payload |-> ZeroPayload, isNil |-> FALSE, err |-> "none", now |-> ZeroTime,
     prev |-> EmptyGraph, writes |-> <<>>, nows |-> <<>>,
     again |-> FALSE, retried |-> FALSE, scen |-> 0, n |-> 0, runs |-> 0]

\* How many steps of upsert by t1, upsert by t2, retire by t1, retire by t2
\* the latest events make, all on one asset and each handled without error.
scenNext(last, ev, err) ==
    LET same == /\ last.payload.AssetType = ev.payload.AssetType
                /\ last.payload.Identifier = ev.payload.Identifier
        s    == IF same THEN last.scen ELSE 0
    IN  IF err # "nil" THEN 0
        ELSE CASE ~ev.isNil /\ ev.payload.Team.ID = TeamT1 -> 1
               [] ~ev.isNil /\ ev.payload.Team.ID = TeamT2 /\ s = 1 -> 2
               [] ev.isNil /\ ev.payload.Team.ID = TeamT1 /\ s = 2 -> 3
               [] ev.isNil /\ ev.payload.Team.ID = TeamT2 /\ s = 3 -> 4
               [] OTHER -> 0

\* assetHandler(payload, isNil) is called and returns.
HandleEvent(ev, fuel, tick) ==
    /\ tick > 0 => clock < MaxTime
    /\ \E r \in {assetHandler([g |-> graph, fuel |-> fuel, clk |-> clock,
                                 tick |-> tick, w |-> <<>>, t |-> <<>>],
                                ev.payload, ev.isNil)} :
           /\ graph' = r.c.g
           /\ clock' = r.c.clk
           /\ lastEv' = [payload |-> ev.payload, isNil |-> ev.isNil,
                         err |-> r.err, now |-> r.c.clk, prev |-> graph,
                         writes |-> r.c.w, nows |-> r.c.t,
                         again |-> /\ lastEv.payload = ev.payload
                                   /\ lastEv.isNil = ev.isNil
                                   /\ lastEv.err \in {"nil"} \cup OwnErrors,
                         retried |-> /\ lastEv.payload = ev.payload
                                     /\ lastEv.isNil = ev.isNil
                                     /\ lastEv.err \notin
                                           {"nil", "none"} \cup OwnErrors,
                         scen |-> scenNext(lastEv, ev, r.err),
                         n |-> lastEv.n + 1, runs |-> 0]
    /\ UNCHANGED <<ref, refN>>
    /\ UNCHANGED <<streamVars, unitVars>>

----------------------------------------------------------------------------
(* stream/kafka and the driver loop *)

Running == dpc \in {"check", "process", "sleep"}

\* A producer appends a message to the topic.
Produce(m) ==
    /\ Len(topic) < MaxLog
    /\ topic' = Append(topic, m)
    /\ UNCHANGED <<committed, stored, pos, pc, cur, ret, ctxDone, dpc, retry,
                   calls, acalls, runOK, runStored, runStart, prevFail, handledOK>>
    /\ UNCHANGED <<engineVars, unitVars>>

\* The context given to run is cancelled.
Cancel ==
    /\ Running
    /\ ~ctxDone
    /\ ctxDone' = TRUE
    /\ UNCHANGED <<topic, committed, stored, pos, pc, cur, ret, dpc, retry,
                   calls, acalls, runOK, runStored, runStart, prevFail, handledOK>>
    /\ UNCHANGED <<engineVars, unitVars>>

\* librdkafka's background thread commits the stored offset
\* (enable.auto.commit = true, enable.auto.offset.store = false).
AutoCommit ==
    /\ Running
    /\ stored # committed
    /\ committed' = stored
    /\ UNCHANGED <<topic, stored, pos, pc, cur, ret, ctxDone, dpc, retry,
                   calls, acalls, runOK, runStored, runStart, prevFail, handledOK>>
    /\ UNCHANGED <<engineVars, unitVars>>

\* run: the head of the for loop. A done context ends run with nil; the
\* deferred proc.Close() commits what the offset store holds.
RunCheck ==
    /\ dpc = "check"
    /\ IF ctxDone
       THEN /\ dpc' = "exitNil"
            /\ committed' = stored
            /\ pc' = pc
       ELSE /\ dpc' = "process"
            /\ pc' = "subscribe"
            /\ committed' = committed
    /\ UNCHANGED <<topic, stored, pos, cur, ret, ctxDone, retry,
                   calls, acalls, runOK, runStored, runStart, prevFail, handledOK>>
    /\ UNCHANGED <<engineVars, unitVars>>

\* Errors that the message handler h returns to Process
MsgHandlerErrors ==
    {"errMetadata", "errUnsupportedVersion", "errUnmarshal", "errMessageID",
     "errHandler"}

\* A Process that returns the handler's error as it is
ProcessingErrorBare(err) == err

\* Process: fmt.Errorf("error processing message: %w", err)
ProcessingError(err) == "error processing message: " \o err

\* Errors that Process returns when the message handler h has failed
HandlerErrors == {ProcessingError(err) : err \in MsgHandlerErrors}

\* A consumer that keeps fetching where the previous subscription stood
SubscribePosKeep == pos

\* Where a new subscription starts to fetch: the committed offset
SubscribePos == committed

\* Process: proc.c.Subscribe(entity, nil).
Subscribe ==
    /\ pc = "subscribe"
    /\ \E ok \in BOOLEAN :
         IF ok
         THEN /\ pc' = "loop"
              /\ pos' = SubscribePos
              /\ runStart' = SubscribePos
              /\ ret' = "none"
         ELSE /\ pc' = "ret"
              /\ pos' = pos
              /\ runStart' = pos
              /\ ret' = "errSubscribe"
    /\ UNCHANGED <<topic, committed, stored, cur, ctxDone, dpc, retry, calls,
                   acalls, runOK, runStored, prevFail, handledOK>>
    /\ UNCHANGED <<engineVars, unitVars>>

\* A loop head that does not look at the context
LoopCheckNoCancel ==
    /\ pc = "loop"
    /\ pc' = "poll"
    /\ UNCHANGED <<topic, committed, stored, pos, cur, ret, ctxDone, dpc, retry,
                   calls, acalls, runOK, runStored, runStart, prevFail, handledOK>>
    /\ UNCHANGED <<engineVars, unitVars>>

\* Process: the select on ctx.Done() at the head of the loop.
LoopCheck ==
    /\ pc = "loop"
    /\ IF ctxDone
       THEN pc' = "ret" /\ ret' = "nil"
       ELSE pc' = "poll" /\ ret' = ret
    /\ UNCHANGED <<topic, committed, stored, pos, cur, ctxDone, dpc, retry,
                   calls, acalls, runOK, runStored, runStart, prevFail, handledOK>>
    /\ UNCHANGED <<engineVars, unitVars>>

\* A consumer that hands over the newest message of the topic
ReadNewest == Len(topic)

\* Offset of the message ReadMessage returns: the next one of the partition
ReadNext == pos + 1

\* A Process that returns the error of a ReadMessage that timed out
ReadMessageTimeoutIsError ==
    /\ pc = "poll"
    /\ \E outcome \in {"msg", "timeout", "err"} :
         CASE outcome = "msg" ->
                /\ pos < Len(topic)
                /\ cur' = ReadNext
                /\ pos' = ReadNext
                /\ pc' = "handle"
                /\ ret' = ret
           [] outcome = "timeout" ->
                /\ pc' = "ret"
                /\ ret' = "errTimedOut"
                /\ UNCHANGED <<cur, pos>>
           [] outcome = "err" ->
                /\ pc' = "ret"
                /\ ret' = "errRead"
                /\ UNCHANGED <<cur, pos>>
    /\ UNCHANGED <<topic, committed, stored, ctxDone, dpc, retry,
                   calls, acalls, runOK, runStored, runStart, prevFail, handledOK>>
    /\ UNCHANGED <<engineVars, unitVars>>

\* Process: proc.c.ReadMessage(100ms): a message, a timeout, or an error.
ReadMessage ==
    /\ pc = "poll"
    /\ \E outcome \in {"msg", "timeout", "err"} :
         CASE outcome = "msg" ->
                /\ pos < Len(topic)
                /\ cur' = ReadNext
                /\ pos' = ReadNext
                /\ pc' = "handle"
                /\ ret' = ret
           [] outcome = "timeout" ->
                /\ pc' = "loop"
                /\ UNCHANGED <<cur, pos, ret>>
           [] outcome = "err" ->
                /\ pc' = "ret"
                /\ ret' = "errRead"
                /\ UNCHANGED <<cur, pos>>
    /\ UNCHANGED <<topic, committed, stored, ctxDone, dpc, retry,
                   calls, acalls, runOK, runStored, runStart, prevFail, handledOK>>
    /\ UNCHANGED <<engineVars, unitVars>>

\* A Process that stores the offset whatever the handler returned
AfterHandlerAlwaysStore(herr) == "store"

\* What Process does with the handler's result (nil: go on to StoreMessage).
AfterHandler(herr) == IF herr = "nil" THEN "store" ELSE "ret"

\* Process: h(msg) has returned herr for the message in hand, decoded as d.
HandlerReturns(d, herr) ==
    /\ calls' = Append(calls, cur)
    /\ acalls' = IF d.res = "call"
                 THEN Append(acalls, [off |-> cur, payload |-> d.payload,
                                      isNil |-> d.isNil])
                 ELSE acalls
    /\ pc' = AfterHandler(herr)
    /\ ret' = IF herr = "nil" THEN ret ELSE ProcessingError(herr)
    /\ handledOK' = IF herr = "nil" THEN handledOK \cup {cur} ELSE handledOK
    /\ runOK' = IF herr = "nil" THEN runOK \cup {cur} ELSE runOK
    /\ UNCHANGED <<topic, committed, stored, pos, cur, ctxDone, dpc, retry,
                   runStored, runStart, prevFail>>

\* Process: h(msg), with h the closure of ProcessAssets around an arbitrary
\* asset handler (as in the tests of package vulcan): the asset handler's
\* result is an input.
HandleStub ==
    /\ pc = "handle"
    /\ \E hres \in {"nil", "errHandler"} :
         LET d    == decodeMsg(topic[cur])
             herr == IF d.res = "call" THEN hres ELSE d.res
         IN  /\ (d.res # "call" => hres = "nil")
             /\ HandlerReturns(d, herr)
    /\ UNCHANGED <<engineVars, unitVars>>

MaxCalls == 5

\* Process: h(msg), with h the closure of ProcessAssets around assetHandler
\* (as run sets it up), against an inventory whose calls succeed.  ref
\* follows the messages that are handled for the first time.
Handle ==
    /\ pc = "handle"
    /\ lastEv.n < MaxCalls
    /\ \E tick \in {0, 1} :
         LET d    == decodeMsg(topic[cur])
             c    == [g |-> graph, fuel |-> -1, clk |-> clock, tick |-> tick,
                      w |-> <<>>, t |-> <<>>]
             r    == assetHandler(c, d.payload, d.isNil)
             rr   == assetHandler([c EXCEPT !.g = ref], d.payload, d.isNil)
             herr == IF d.res # "call" THEN d.res
                     ELSE IF r.err = "nil" THEN "nil" ELSE "errHandler"
         IN  /\ tick > 0 => clock < MaxTime
             /\ HandlerReturns(d, herr)
             /\ IF d.res = "call"
                THEN /\ graph' = r.c.g
                     /\ clock' = r.c.clk
                     /\ lastEv' = [lastEv EXCEPT
                                     !.n = @ + 1,
                                     !.runs = IF calls = <<>> THEN @ + 1 ELSE @]
                ELSE UNCHANGED <<graph, clock, lastEv>>
             /\ IF herr = "nil" /\ cur = refN + 1
                THEN ref' = rr.c.g /\ refN' = cur
                ELSE UNCHANGED <<ref, refN>>
    /\ UNCHANGED unitVars

\* A Process that returns nil instead of storing the offset once the context
\* is done
StoreMessageUnlessDone ==
    /\ pc = "store"
    /\ \E ok \in BOOLEAN :
         IF ctxDone
         THEN /\ pc' = "ret"
              /\ ret' = "nil"
              /\ UNCHANGED <<stored, runStored>>
         ELSE IF ok
         THEN /\ stored' = cur
              /\ runStored' = runStored \cup {cur}
              /\ pc' = "loop"
              /\ ret' = ret
         ELSE /\ pc' = "ret"
              /\ ret' = "errStore"
              /\ UNCHANGED <<stored, runStored>>
    /\ UNCHANGED <<topic, committed, pos, cur, ctxDone, dpc, retry,
                   calls, acalls, runOK, runStored, runStart, prevFail, handledOK>>
    /\ UNCHANGED <<engineVars, unitVars>>

\* Process: proc.c.StoreMessage(kmsg) stores offset+1 of the message in hand.
StoreMessage ==
    /\ pc = "store"
    /\ \E ok \in BOOLEAN :
         IF ok
         THEN /\ stored' = cur
              /\ runStored' = runStored \cup {cur}
              /\ pc' = "loop"
              /\ ret' = ret
         ELSE /\ pc' = "ret"
              /\ ret' = "errStore"
              /\ UNCHANGED <<stored, runStored>>
    /\ UNCHANGED <<topic, committed, pos, cur, ctxDone, dpc, retry,
                   calls, acalls, runOK, runStart, prevFail, handledOK>>
    /\ UNCHANGED <<engineVars, unitVars>>

\* A driver that gives up on every error
RetryDisabledAlways == TRUE

\* run: cfg.RetryDuration == 0
RetryDisabled == ~retry

\* run: ProcessAssets has returned. An error with RetryDuration = 0 ends run
\* (and the deferred Close commits); otherwise run goes to sleep.
ProcessReturn ==
    /\ dpc = "process"
    /\ pc = "ret"
    /\ pc' = "idle"
    /\ IF ret # "nil" /\ RetryDisabled
       THEN dpc' = "exitErr" /\ committed' = stored
       ELSE dpc' = "sleep" /\ committed' = committed
    /\ prevFail' = IF ret \in HandlerErrors THEN calls[Len(calls)] ELSE 0
    /\ cur' = 0
    /\ calls' = <<>>
    /\ acalls' = <<>>
    /\ runOK' = {}
    /\ runStored' = {}
    /\ runStart' = 0
    /\ UNCHANGED <<topic, stored, pos, ret, ctxDone, retry, handledOK>>
    /\ UNCHANGED <<engineVars, unitVars>>

\* run: time.Sleep(cfg.RetryDuration) is over.
Sleep ==
    /\ dpc = "sleep"
    /\ dpc' = "check"
    /\ UNCHANGED <<topic, committed, stored, pos, pc, cur, ret, ctxDone, retry,
                   calls, acalls, runOK, runStored, runStart, prevFail, handledOK>>
    /\ UNCHANGED <<engineVars, unitVars>>

\* The process dies: nothing is committed, the offset store is lost.
Crash ==
    /\ Running
    /\ dpc' = "crashed"
    /\ pc' = "idle"
    /\ prevFail' = 0
    /\ cur' = 0
    /\ calls' = <<>>
    /\ acalls' = <<>>
    /\ runOK' = {}
    /\ runStored' = {}
    /\ runStart' = 0
    /\ pos' = 0
    /\ ret' = "none"
    /\ stored' = committed
    /\ UNCHANGED <<topic, committed, ctxDone, retry, handledOK>>
    /\ UNCHANGED <<engineVars, unitVars>>

\* The command is started again: a new consumer and a new context.
Restart ==
    /\ dpc \in {"exitNil", "exitErr", "crashed"}
    /\ dpc' = "check"
    /\ pc' = "idle"
    /\ ctxDone' = FALSE
    /\ stored' = committed
    /\ pos' = 0
    /\ ret' = "none"
    /\ prevFail' = 0
    /\ UNCHANGED <<topic, committed, cur, retry, calls, acalls, runOK,
                   runStored, runStart, handledOK>>
    /\ UNCHANGED <<engineVars, unitVars>>

StreamInit ==
    /\ topic = <<>>
    /\ committed = 0
    /\ stored = 0
    /\ pos = 0
    /\ pc = "idle"
    /\ cur = 0
    /\ ret = "none"
    /\ ctxDone = FALSE
    /\ dpc = "check"
    /\ retry \in BOOLEAN
    /\ calls = <<>>
    /\ acalls = <<>>
    /\ runOK = {}
    /\ runStored = {}
    /\ runStart = 0
    /\ prevFail = 0
    /\ handledOK = {}

EngineInit ==
    /\ graph = EmptyGraph
    /\ clock = 1
    /\ lastEv = NoEvent
    /\ ref = EmptyGraph
    /\ refN = 0

\* No function has been called on its own
NoOutput == [fn |-> "none"]

UnitInit ==
    /\ input = <<>>
    /\ output = NoOutput

Init == StreamInit /\ EngineInit /\ UnitInit

Next ==
    \/ \E m \in StreamMsgs : Produce(m)
    \/ Cancel
    \/ AutoCommit
    \/ RunCheck
    \/ Subscribe
    \/ LoopCheck
    \/ ReadMessage
    \/ HandleStub
    \/ StoreMessage
    \/ ProcessReturn
    \/ Sleep
    \/ Crash
    \/ Restart

Spec == Init /\ [][Next]_vars

\* What the producer of the pipeline specification writes to the topic
PipeMsgs ==
    { UpsertMsg(V020, TeamT1, HostnameT, IdentA, Ann(ShortX)),
      TombstoneMsg(V020, TeamT2, AWSAccountT, LongX),
      UpsertMsg(V020, TeamT2, HostnameT, IdentA, <<>>) }

NextPipe ==
    \/ \E m \in PipeMsgs : Produce(m)
    \/ Cancel
    \/ AutoCommit
    \/ RunCheck
    \/ Subscribe
    \/ LoopCheck
    \/ ReadMessage
    \/ Handle
    \/ StoreMessage
    \/ ProcessReturn
    \/ Sleep
    \/ Crash
    \/ Restart

\* The command as run builds it: stream, decoder and asset handler
SpecPipe == Init /\ [][NextPipe]_vars

\* The asset handler alone, against an inventory whose calls may fail
NextEngine ==
    /\ lastEv.n < MaxEvents
    /\ \E ev \in EngineEvents, fuel \in {-1}, tick \in 0..MaxTick :
          HandleEvent(ev, fuel, tick)

SpecEngine == Init /\ [][NextEngine]_vars

MaxFuel == 9

\* Upserts of one host, by one team with its AWS account and by another
\* without, and the retirements of the host and of the account
FaultyMsgs ==
    { UpsertMsg(V020, TeamT1, HostnameT, IdentA, Ann(ShortX)),
      UpsertMsg(V020, TeamT2, HostnameT, IdentA, <<>>),
      TombstoneMsg(V020, TeamT1, HostnameT, IdentA),
      TombstoneMsg(V020, TeamT2, HostnameT, IdentA),
      TombstoneMsg(V020, TeamT1, AWSAccountT, LongX) }

FaultyEvents ==
    {[payload |-> decodeMsg(m).payload, isNil |-> decodeMsg(m).isNil] :
       m \in FaultyMsgs}

\* The asset handler against an inventory of which any one call may fail:
\* the call after fuel successful ones
NextFaulty ==
    /\ lastEv.n < MaxEvents
    /\ \E ev \in FaultyEvents, fuel \in -1..MaxFuel, tick \in 0..1 :
          HandleEvent(ev, fuel, tick)

SpecFaulty == Init /\ [][NextFaulty]_vars

\* Upserts of one host with an AWS account that cannot be normalized, alone
\* and after one that can, an upsert with a valid one, and a retirement
InvalidMsgs ==
    { UpsertMsg(V020, TeamT1, HostnameT, IdentA, Ann(BadX)),
      UpsertMsg(V020, TeamT1, HostnameT, IdentA, Ann(ShortX) \o Ann(BadX)),
      UpsertMsg(V020, TeamT2, HostnameT, IdentA, Ann(ShortY)),
      TombstoneMsg(V020, TeamT1, HostnameT, IdentA) }

InvalidEvents ==
    {[payload |-> decodeMsg(m).payload, isNil |-> decodeMsg(m).isNil] :
       m \in InvalidMsgs}

\* The asset handler, given upserts whose annotations are not all valid
NextInvalid ==
    /\ lastEv.n < MaxEvents
    /\ \E ev \in InvalidEvents, tick \in 0..MaxTick : HandleEvent(ev, -1, tick)

SpecInvalid == Init /\ [][NextInvalid]_vars

MaxAssets == 2
MaxTeams == 2

\* Another client of the inventory creates an asset or a team, whether or
\* not the inventory has one of that type and identifier.
OtherClientCreates ==
    /\ \/ /\ Len(graph.assets) < MaxAssets
          /\ graph' = CreateAsset(graph, HostnameT, IdentA, clock, Unexpired)
       \/ /\ Len(graph.teams) < MaxTeams
          /\ graph' = CreateTeam(graph, TeamT1, TeamT1)
    /\ UNCHANGED <<clock, lastEv, ref, refN>>
    /\ UNCHANGED <<streamVars, unitVars>>

\* An upsert and a retirement of one host by one team, and an upsert of it
\* by another
SharedMsgs ==
    { UpsertMsg(V020, TeamT1, HostnameT, IdentA, Ann(ShortX)),
      UpsertMsg(V020, TeamT2, HostnameT, IdentA, <<>>),
      TombstoneMsg(V020, TeamT1, HostnameT, IdentA) }

SharedEvents ==
    {[payload |-> decodeMsg(m).payload, isNil |-> decodeMsg(m).isNil] :
       m \in SharedMsgs}

\* The asset handler on an inventory that other clients write as well
NextShared ==
    \/ /\ lastEv.n < MaxEvents
       /\ \E ev \in SharedEvents, tick \in 0..1 : HandleEvent(ev, -1, tick)
    \/ OtherClientCreates

SpecShared == Init /\ [][NextShared]_vars

\* The asset handler, given the events of one host and the retirements of
\* its AWS account
NextScen ==
    /\ lastEv.n < MaxScen
    /\ \E ev \in ScenEvents, fuel \in {-1}, tick \in 0..MaxTick :
          HandleEvent(ev, fuel, tick)

SpecScen == Init /\ [][NextScen]_vars

\* MockProcessor.Process: return err
MockReturn(err) == err

\* MockProcessor.Process with the closure of ProcessAssets as h: one turn of
\* the range loop over mp.msgs (held by topic), or the return nil after it.
\* The asset handler's result is an input.
MockProcess ==
    /\ pc = "mock"
    /\ IF cur = Len(topic)
       THEN /\ pc' = "ret"
            /\ ret' = "nil"
            /\ UNCHANGED <<cur, calls, acalls, runOK, handledOK>>
       ELSE \E hres \in {"nil", "errHandler"} :
              LET d    == decodeMsg(topic[cur + 1])
                  herr == IF d.res = "call" THEN hres ELSE d.res
              IN  /\ (d.res # "call" => hres = "nil")
                  /\ cur' = cur + 1
                  /\ calls' = Append(calls, cur + 1)
                  /\ acalls' = IF d.res = "call"
                               THEN Append(acalls, [off |-> cur + 1,
                                                    payload |-> d.payload,
                                                    isNil |-> d.isNil])
                               ELSE acalls
                  /\ runOK' = IF herr = "nil" THEN runOK \cup {cur + 1} ELSE runOK
                  /\ handledOK' = IF herr = "nil" THEN handledOK \cup {cur + 1}
                                  ELSE handledOK
                  /\ pc' = IF herr = "nil" THEN "mock" ELSE "ret"
                  /\ ret' = IF herr = "nil" THEN ret ELSE MockReturn(herr)
    /\ UNCHANGED <<topic, committed, stored, pos, ctxDone, dpc, retry,
                   runStored, runStart, prevFail>>
    /\ UNCHANGED <<engineVars, unitVars>>

\* Stands for a metadata entry that the message does not carry
Absent == <<"(absent)">>

\* A metadata entry for key, left out when value is Absent
MetaEntry(key, value) ==
    IF value = Absent THEN <<>> ELSE <<[Key |-> key, Value |-> value]>>

\* Metadata of the decoder's inputs: every entry absent, empty or set, and a
\* few lists with an entry given twice or with an entry of another key
DecodeMetas ==
    { MetaEntry("version", v) \o MetaEntry("type", t) \o MetaEntry("identifier", i) :
        v \in {Absent, <<>>, V020, V100},
        t \in {Absent, <<>>, HostnameT},
        i \in {Absent, <<>>, IdentA} }
    \cup { Meta(V020, HostnameT, IdentA) \o MetaEntry(k, <<>>) :
             k \in {"version", "type", "identifier", "other"} }
    \cup { MetaEntry(k, <<>>) \o Meta(V020, HostnameT, IdentA) :
             k \in {"version", "type", "identifier", "other"} }

\* Values of the decoder's inputs: a JSON payload, null, and bytes that do
\* not unmarshal
DecodeValues ==
    { [kind |-> "json", body |-> Payload(TeamT2, AWSAccountT, LongX, Ann(ShortX))],
      [kind |-> "nil", body |-> ZeroPayload],
      [kind |-> "bad", body |-> ZeroPayload] }

DecodeKeys ==
    { MsgKey(TeamT1, IdentA), IdentA, <<"/">>, <<>>,
      MsgKey(TeamT1, MsgKey(TeamT2, IdentA)) }

DecodeMsgs ==
    { [Key |-> k, Value |-> v, Metadata |-> md] :
        k \in DecodeKeys, v \in DecodeValues, md \in DecodeMetas }

\* NewMockProcessor(msgs) and NewClient around it, for msgs out of topics
MockInit(topics) ==
    /\ topic \in topics
    /\ committed = 0
    /\ stored = 0
    /\ pos = 0
    /\ pc = "mock"
    /\ cur = 0
    /\ ret = "none"
    /\ ctxDone = FALSE
    /\ dpc = "testMock"
    /\ retry = FALSE
    /\ calls = <<>>
    /\ acalls = <<>>
    /\ runOK = {}
    /\ runStored = {}
    /\ runStart = 0
    /\ prevFail = 0
    /\ handledOK = {}
    /\ EngineInit
    /\ UnitInit

\* ProcessAssets over a MockProcessor that holds one message
SpecDecode == MockInit({<<m>> : m \in DecodeMsgs}) /\ [][MockProcess]_vars

MaxMock == 3

\* What the tests give to NewMockProcessor: an upsert, a tombstone, an upsert
\* of version 1.0.0, an upsert without type and identifier metadata, a value
\* that does not unmarshal, and a tombstone whose key is not team/asset
MockMsgs ==
    { UpsertMsg(V020, TeamT1, HostnameT, IdentA, <<>>),
      TombstoneMsg(V020, TeamT2, AWSAccountT, LongX),
      UpsertMsg(V100, TeamT1, HostnameT, IdentA, <<>>),
      [UpsertMsg(V020, TeamT1, HostnameT, IdentA, <<>>) EXCEPT
         !.Metadata = <<[Key |-> "version", Value |-> V020]>>],
      [UpsertMsg(V020, TeamT1, HostnameT, IdentA, <<>>) EXCEPT
         !.Value = [kind |-> "bad", body |-> ZeroPayload]],
      [TombstoneMsg(V020, TeamT1, HostnameT, IdentA) EXCEPT !.Key = IdentA] }

\* ProcessAssets over a MockProcessor that holds up to MaxMock messages
SpecMock ==
    /\ MockInit(UNION {[1..n -> MockMsgs] : n \in 1..MaxMock})
    /\ [][MockProcess]_vars

\* ProcessAssets called by a test, over a MockProcessor that holds up to
\* MaxMock messages or over an AloProcessor whose topic holds them
InitProcessors ==
    \/ MockInit(UNION {[1..n -> MockMsgs] : n \in 1..MaxMock})
    \/ /\ topic \in UNION {[1..n -> MockMsgs] : n \in 1..MaxMock}
       /\ committed = 0
       /\ stored = 0
       /\ pos = 0
       /\ pc = "subscribe"
       /\ cur = 0
       /\ ret = "none"
       /\ ctxDone = FALSE
       /\ dpc = "testAlo"
       /\ retry = FALSE
       /\ calls = <<>>
       /\ acalls = <<>>
       /\ runOK = {}
       /\ runStored = {}
       /\ runStart = 0
       /\ prevFail = 0
       /\ handledOK = {}
       /\ EngineInit
       /\ UnitInit

NextProcessors ==
    \/ MockProcess
    \/ Subscribe
    \/ LoopCheck
    \/ ReadMessage
    \/ HandleStub
    \/ StoreMessage

SpecProcessors == InitProcessors /\ [][NextProcessors]_vars

RECURSIVE Strings(_, _)
\* The strings over alphabet of length n at most
Strings(alphabet, n) ==
    IF n = 0 THEN {<<>>}
    ELSE LET S == Strings(alphabet, n - 1)
         IN  S \cup {Append(s, c) : s \in {t \in S : Len(t) = n - 1}, c \in alphabet}

\* A unit test calls a function on one of inputs
UnitTestInit(inputs) ==
    /\ StreamInit
    /\ retry = FALSE
    /\ EngineInit
    /\ input \in inputs
    /\ output = NoOutput

MaxVersionLen == 6

\* The versions of TestSupportedVersion, and the strings made of v, 0, 1,
\* the dot and the minus sign
VersionInputs ==
    Strings({"v", "0", "1", ".", "-"}, MaxVersionLen)
    \cup { <<"v", "0", ".", "2", ".", "3">>, <<"0", ".", "2", ".", "3">>,
           <<"0", "0", ".", "2", ".", "3">>, <<"1", "1", ".", "2", ".", "3">>,
           <<"0", ".", "2">>, <<"+", "0", ".", "2", ".", "3">>,
           <<"0", ".", "x", ".", "y">>, <<"v", "0", ".", "2", ".", "x">> }

\* TestSupportedVersion: got := supportedVersion(tt.v)
CallSupportedVersion ==
    /\ output = NoOutput
    /\ output' = [fn |-> "supportedVersion", ok |-> supportedVersion(input)]
    /\ UNCHANGED <<streamVars, engineVars, input>>

SpecVersion == UnitTestInit(VersionInputs) /\ [][CallSupportedVersion]_vars

\* 123456789012 and 12345abc9012 of TestNormalizeAWSAccountID
TestAccount == <<"1", "2", "3", "4", "5", "6", "7", "8", "9", "0", "1", "2">>

TestBadAccount == <<"1", "2", "3", "4", "5", "a", "b", "c", "9", "0", "1", "2">>

\* Strings of 11 to 13 characters: zeros, but for one character at most
AccountCores ==
    { [i \in 1..n |-> "0"] : n \in {11, 12, 13} }
    \cup { [[i \in 1..12 |-> "0"] EXCEPT ![k] = ch] :
             k \in 1..12, ch \in {"1", "9", "a", ":", " "} }
    \cup { TestAccount, TestBadAccount }

\* The IDs of TestNormalizeAWSAccountID and their like: short forms, long
\* forms, and long forms with something wrong before or after the digits
AccountInputs ==
    AccountCores
    \cup { ArnPrefix \o core \o ArnSuffix : core \in AccountCores }
    \cup { Tail(ArnPrefix) \o ShortX \o ArnSuffix,
           <<" ">> \o ArnPrefix \o ShortX \o ArnSuffix,
           ArnPrefix \o ShortX \o ArnSuffix \o <<"s">>,
           ArnPrefix \o ShortX \o <<":", "u", "s", "e", "r">>,
           ArnPrefix \o ArnSuffix, ArnPrefix \o ShortX, ShortX \o ArnSuffix,
           <<>> }

\* TestNormalizeAWSAccountID: gotID, err := normalizeAWSAccountID(tt.id)
CallNormalize ==
    /\ output = NoOutput
    /\ LET r == normalizeAWSAccountID(input)
       IN  output' = [fn |-> "normalizeAWSAccountID", err |-> r.err, id |-> r.id]
    /\ UNCHANGED <<streamVars, engineVars, input>>

\* normalizeAWSAccountID is called on what it has returned without error
CallNormalizeAgain ==
    /\ output.fn = "normalizeAWSAccountID"
    /\ ~output.err
    /\ LET r == normalizeAWSAccountID(output.id)
       IN  output' = [fn |-> "again", first |-> output.id,
                      err |-> r.err, id |-> r.id]
    /\ UNCHANGED <<streamVars, engineVars, input>>

NextAccount == CallNormalize \/ CallNormalizeAgain

SpecAccount == UnitTestInit(AccountInputs) /\ [][NextAccount]_vars

\* A step of the goroutine that runs run, and Process inside it
RunStep ==
    \/ RunCheck
    \/ Subscribe
    \/ LoopCheck
    \/ ReadMessage
    \/ HandleStub
    \/ StoreMessage
    \/ ProcessReturn
    \/ Sleep

\* run is one goroutine that runs on: Subscribe, the select, ReadMessage
\* (which gives up after 100ms), StoreMessage and time.Sleep return, and so
\* does every handler call.
RunFair == WF_vars(RunStep)

MaxLiveLog == 2

\* What the producer of the fair specification writes to the topic: an
\* upsert, and a message without type and identifier metadata
LiveMsgs ==
    { UpsertMsg(V020, TeamT1, HostnameT, IdentA, <<>>),
      [UpsertMsg(V020, TeamT1, HostnameT, IdentA, <<>>) EXCEPT
         !.Metadata = <<[Key |-> "version", Value |-> V020]>>] }

NextFair ==
    \/ \E m \in LiveMsgs : Len(topic) < MaxLiveLog /\ Produce(m)
    \/ Cancel
    \/ AutoCommit
    \/ RunCheck
    \/ Subscribe
    \/ LoopCheck
    \/ ReadMessage
    \/ HandleStub
    \/ StoreMessage
    \/ ProcessReturn
    \/ Sleep

\* The stream layer under a scheduler that lets the goroutine of run run on
SpecFair == Init /\ [][NextFair]_vars /\ RunFair

----------------------------------------------------------------------------
(* Properties of the stream layer *)

Range(f) == {f[i] : i \in DOMAIN f}

FullMetadata(m) == ~parseMetadata(m).err

VersionOf(m) == MetaGet(m.Metadata, "version", <<>>)

\* C1: in a Process run an offset is stored only for a message whose handler
\* call returned nil in that run, every handled message is stored before the
\* next poll, and a run that ended on a handler error returned a non-nil
\* error and did not store the offset of the message that failed.
C1_StoreOnlyAfterHandlerSuccess ==
    /\ runStored \subseteq runOK
    /\ runOK \subseteq Range(calls)
    /\ pc = "poll" => Range(calls) \subseteq runStored
    /\ (pc = "ret" /\ ret \in HandlerErrors) =>
          /\ calls # <<>>
          /\ calls[Len(calls)] \notin runStored
          /\ calls[Len(calls)] \notin runOK
    /\ pc = "store" => cur \in runOK

\* A run that stored offsets and then ended on a handler error
C1_Witness ==
    /\ pc = "ret"
    /\ ret \in HandlerErrors
    /\ runStored # {}
    /\ calls[Len(calls)] \notin runStored

\* C2: no message whose handler has never succeeded is skipped: the committed
\* offset, the offset store and the fetch position never pass an unhandled
\* message, every run delivers first the message right after the offset that
\* was committed when it subscribed, and a run that follows a failure at
\* message k with the offsets before k committed delivers k first.
C2_NoUnhandledMessageSkipped ==
    /\ \A i \in 1..committed : i \in handledOK
    /\ \A i \in 1..stored : i \in handledOK
    /\ \A i \in 1..Len(calls) : \A j \in 1..(calls[i] - 1) : j \in handledOK
    /\ pc \in {"loop", "poll", "store"} => \A i \in 1..pos : i \in handledOK
    /\ calls # <<>> => calls[1] = runStart + 1
    /\ (calls # <<>> /\ prevFail > 0 /\ runStart = prevFail - 1) =>
          calls[1] = prevFail

\* A run failed at message 2; the next run delivered 2 first, then 3
C2_Witness ==
    /\ prevFail = 2
    /\ calls = <<2, 3>>
    /\ 3 \in runOK

\* C3: within a run the handler is given the polled messages in the order of
\* the partition, each once, and one at a time: at the head of the loop and
\* at the poll every polled message has been through the handler, and while
\* a handler call is in flight exactly the last polled message awaits it.
C3_HandlerInDeliveryOrderOneAtATime ==
    /\ \A i \in 1..Len(calls) : calls[i] = runStart + i
    /\ pc \in {"loop", "poll", "store"} => Len(calls) = pos - runStart
    /\ pc = "handle" => (Len(calls) = pos - runStart - 1 /\ cur = pos)
    /\ pc = "store" => (calls # <<>> /\ cur = calls[Len(calls)])

\* Two messages handled in order and a third one in hand
C3_Witness ==
    /\ pc = "handle"
    /\ calls = <<1, 2>>
    /\ cur = 3

\* C6 (as claimed): a message with the three metadata entries and an
\* unsupported version is not an error: its handler call returns nil, its
\* offset is stored before the next poll and the run goes on.
C6_UnsupportedVersionIsSkipped ==
    \A i \in 1..Len(calls) :
       (FullMetadata(topic[calls[i]]) /\ VersionOf(topic[calls[i]]) = V100) =>
          /\ calls[i] \in runOK
          /\ pc \in {"loop", "poll"} => calls[i] \in runStored
          /\ ~(pc = "ret" /\ i = Len(calls) /\ ret \in HandlerErrors)

\* C7: the asset handler is never invoked for a message whose version is
\* unsupported ("1.0.0" against major 0), payload or tombstone alike.
C7_UnsupportedVersionNeverReachesAssetHandler ==
    /\ \A i \in 1..Len(acalls) : VersionOf(topic[acalls[i].off]) # V100
    /\ \A i \in 1..Len(calls) :
          VersionOf(topic[calls[i]]) = V100 =>
             \A j \in 1..Len(acalls) : acalls[j].off # calls[i]

\* A tombstone with version 1.0.0 has been through the message handler
C7_Witness ==
    /\ calls # <<>>
    /\ VersionOf(topic[calls[Len(calls)]]) = V100
    /\ topic[calls[Len(calls)]].Value.kind = "nil"
    /\ FullMetadata(topic[calls[Len(calls)]])

----------------------------------------------------------------------------
(* Properties of the asset handler and of the pipeline *)

Live(x) == x.Expiration = Unexpired

AssetKey(g, i) == <<g.assets[i].Type, g.assets[i].Identifier>>

\* The inventory without its timestamps: assets, teams, owns and parent-of
\* relations, each with its live/expired (active/ended) status.
Status(g) ==
    [assets  |-> {[key |-> AssetKey(g, i), live |-> Live(g.assets[i])] :
                    i \in 1..Len(g.assets)},
     teams   |-> {g.teams[i] : i \in 1..Len(g.teams)},
     owns    |-> {[asset |-> AssetKey(g, o.AssetID),
                   team |-> g.teams[o.TeamID].Identifier,
                   active |-> o.EndTime = ZeroTime] : o \in g.owns},
     parents |-> {[child |-> AssetKey(g, e.ChildID),
                   parent |-> AssetKey(g, e.ParentID),
                   live |-> Live(e)] : e \in g.parents}]

\* The asset and the team of the last event, in the inventory it was given
LastAssets == Assets(lastEv.prev, lastEv.payload.AssetType,
                     lastEv.payload.Identifier)
LastTeams == Teams(lastEv.prev, lastEv.payload.Team.ID)

Touches(e, a) == e.ChildID = a \/ e.ParentID = a

\* A first run has handled a prefix of the topic and the next run that
\* handled a message, the current one, has handled the topic to its end.
PipeDone ==
    /\ pc \in {"loop", "poll"}
    /\ calls # <<>>
    /\ calls[Len(calls)] = Len(topic)
    /\ stored = Len(topic)
    /\ refN = Len(topic)
    /\ lastEv.runs = 2

\* C4: when a run that was interrupted and resumed from the committed offset
\* (replaying messages already handled) has handled the topic to its end, the
\* inventory has the same assets, teams, owns and parent-of relations, with
\* the same live/expired status, as after handling every message once.
C4_ResumeYieldsSameGraph ==
    PipeDone => Status(graph) = Status(ref)

\* C5: handling the same upsert a second time in a row creates no asset, team
\* or relation and changes no status; first-seen and start times stay, and
\* last-seen times do not go back.
C5_UpsertTwiceIsUpsertOnce ==
    (lastEv.again /\ ~lastEv.isNil /\ lastEv.err \in {"nil"} \cup OwnErrors) =>
       LET g0 == lastEv.prev
       IN  /\ Status(graph) = Status(g0)
           /\ Len(graph.assets) = Len(g0.assets)
           /\ graph.teams = g0.teams
           /\ Cardinality(graph.owns) = Cardinality(g0.owns)
           /\ Cardinality(graph.parents) = Cardinality(g0.parents)
           /\ \A i \in 1..Len(g0.assets) :
                 /\ graph.assets[i].FirstSeen = g0.assets[i].FirstSeen
                 /\ graph.assets[i].LastSeen >= g0.assets[i].LastSeen
           /\ \A o0 \in g0.owns : \E o \in graph.owns :
                 /\ o.AssetID = o0.AssetID /\ o.TeamID = o0.TeamID
                 /\ o.StartTime = o0.StartTime
           /\ \A e0 \in g0.parents : \E e \in graph.parents :
                 /\ e.ChildID = e0.ChildID /\ e.ParentID = e0.ParentID
                 /\ e.FirstSeen = e0.FirstSeen
                 /\ e.LastSeen >= e0.LastSeen

C5_Witness ==
    /\ lastEv.again /\ ~lastEv.isNil /\ lastEv.err = "nil"
    /\ lastEv.payload.Annotations # <<>>
    /\ graph.parents # {}
    /\ graph # lastEv.prev

\* The last event was a retirement by the only team with an active owns
\* relation on the asset, and it was handled without error.
RetiredOnlyOwner ==
    /\ lastEv.isNil /\ lastEv.err = "nil"
    /\ Len(LastAssets) = 1 /\ Len(LastTeams) = 1
    /\ \E o \in lastEv.prev.owns :
          o.AssetID = LastAssets[1] /\ o.TeamID = LastTeams[1]
          /\ o.EndTime = ZeroTime
    /\ \A o \in lastEv.prev.owns :
          (o.AssetID = LastAssets[1] /\ o.TeamID # LastTeams[1])
             => o.EndTime # ZeroTime

\* C8: a retirement by the only active owner of asset A ends that owns
\* relation, expires A, and expires every parent-of relation of A (as child
\* or as parent) that was still unexpired, all at the now of the event.
C8_RetiringOnlyOwnerCascades ==
    RetiredOnlyOwner =>
       LET a == LastAssets[1]
           t == LastTeams[1]
       IN  /\ \E o \in graph.owns : o.AssetID = a /\ o.TeamID = t
           /\ \A o \in graph.owns :
                 (o.AssetID = a /\ o.TeamID = t) => o.EndTime = lastEv.now
           /\ graph.assets[a].Expiration = lastEv.now
           /\ \A e0 \in lastEv.prev.parents :
                 (Touches(e0, a) /\ e0.Expiration > lastEv.now) =>
                    \E e \in graph.parents :
                       /\ e.ChildID = e0.ChildID /\ e.ParentID = e0.ParentID
                       /\ e.Expiration = lastEv.now

C8_Witness ==
    /\ RetiredOnlyOwner
    /\ \E e \in lastEv.prev.parents :
          e.ParentID = LastAssets[1] /\ e.ChildID # LastAssets[1] /\ Live(e)
    /\ \E e \in lastEv.prev.parents :
          e.ChildID = LastAssets[1] /\ e.ParentID # LastAssets[1] /\ Live(e)
    /\ lastEv.prev.assets[LastAssets[1]].LastSeen < lastEv.now

\* The last event was a retirement by a team for an asset on which another
\* team's owns relation had no end time.
RetiredWithOtherOwner ==
    /\ lastEv.isNil /\ lastEv.err # "none"
    /\ Len(LastAssets) = 1
    /\ \E o \in lastEv.prev.owns :
          /\ o.AssetID = LastAssets[1] /\ o.EndTime = ZeroTime
          /\ lastEv.prev.teams[o.TeamID].Identifier # lastEv.payload.Team.ID

\* C9: a retirement by team T for asset A while another team's owns relation
\* on A has no end time writes the owns relation of A and T only (its end
\* becomes the now of the event): A, the teams, every parent-of relation and
\* every other owns relation are as before, and A is live.
C9_RetiringOneOfTwoOwnersWritesOwnsOnly ==
    RetiredWithOtherOwner =>
       LET g0 == lastEv.prev
           a  == LastAssets[1]
           mine(o) == /\ o.AssetID = a /\ Len(LastTeams) = 1
                      /\ o.TeamID = LastTeams[1]
       IN  /\ graph.assets = g0.assets
           /\ graph.teams = g0.teams
           /\ graph.parents = g0.parents
           /\ {o \in graph.owns : ~mine(o)} = {o \in g0.owns : ~mine(o)}
           /\ Live(graph.assets[a])
           /\ \A o0 \in g0.owns : mine(o0) =>
                 \E o \in graph.owns :
                    /\ mine(o) /\ o.StartTime = o0.StartTime
                    /\ lastEv.err = "nil" => o.EndTime = lastEv.now
           /\ \A o \in graph.owns : mine(o) => \E o0 \in g0.owns : mine(o0)

C9_Witness ==
    /\ RetiredWithOtherOwner /\ lastEv.err = "nil"
    /\ \E o \in lastEv.prev.owns :
          /\ o.AssetID = LastAssets[1] /\ Len(LastTeams) = 1
          /\ o.TeamID = LastTeams[1] /\ o.EndTime = ZeroTime
    /\ \E e \in graph.parents : Touches(e, LastAssets[1]) /\ Live(e)
    /\ graph # lastEv.prev

\* The owns relation of the last event's asset and the given team
OwnsOf(g, a, team) ==
    {o \in g.owns : o.AssetID = a /\ g.teams[o.TeamID].Identifier = team}

\* C10: right after upsert by t1, upsert by t2 and retire by t1 of an asset,
\* the asset is live, its owns relation with t1 has an end time and the one
\* with t2 has none; right after the following retire by t2 the asset's
\* expiration is the now of that event, and every parent-of relation of the
\* asset is expired as of that now: at that now when it was unexpired
\* before, and no later in any case.
C10_TwoOwnersScenario ==
    /\ lastEv.scen = 3 =>
          LET a == LastAssets[1]
          IN  /\ Live(graph.assets[a])
              /\ OwnsOf(graph, a, TeamT1) # {}
              /\ \A o \in OwnsOf(graph, a, TeamT1) : o.EndTime # ZeroTime
              /\ OwnsOf(graph, a, TeamT2) # {}
              /\ \A o \in OwnsOf(graph, a, TeamT2) : o.EndTime = ZeroTime
    /\ lastEv.scen = 4 =>
          LET a == LastAssets[1]
          IN  /\ graph.assets[a].Expiration = lastEv.now
              /\ \A e \in graph.parents : Touches(e, a) =>
                    e.Expiration <= lastEv.now
              /\ \A e0 \in lastEv.prev.parents :
                    (Touches(e0, a) /\ Live(e0)) =>
                       \E e \in graph.parents :
                          /\ e.ChildID = e0.ChildID /\ e.ParentID = e0.ParentID
                          /\ e.Expiration = lastEv.now

C10_Witness ==
    /\ lastEv.scen = 4
    /\ \E e \in lastEv.prev.parents : Touches(e, LastAssets[1]) /\ Live(e)
    /\ lastEv.prev.assets[LastAssets[1]].LastSeen < lastEv.now

\* Process is between its call and its return
InProcess == pc \in {"subscribe", "loop", "poll", "handle", "store"}

C11_CancelStep ==
    /\ (ctxDone /\ pc \in {"subscribe", "loop", "handle", "store"}) =>
          /\ pc' # "poll"
          /\ (pc' = "handle" => pc = "handle")
          /\ (pc # "handle" => calls' = calls \/ calls' = <<>>)
    /\ (ctxDone /\ pc = "loop" /\ pc' # "loop" /\ dpc' # "crashed") =>
          /\ pc' = "ret"
          /\ ret' = "nil"
          /\ pos' = pos
          /\ calls' = calls

\* C11: when the context is done at the call of Process or becomes done
\* between two polls, the next pass of the loop head returns nil with no
\* further poll and no further handler call; and a Process whose context is
\* done returns, given that a handler call in flight returns.
C11_CancelledProcessReturnsNil ==
    /\ [][C11_CancelStep]_vars
    /\ (ctxDone /\ InProcess) ~> ~InProcess

\* Process returned nil on a done context after handling a message
C11_Witness ==
    /\ ctxDone
    /\ pc = "ret"
    /\ ret = "nil"
    /\ calls # <<>>
    /\ calls[Len(calls)] \in runStored

C12_CancelStep ==
    /\ (ctxDone /\ pc' = "handle") => pc = "handle"
    /\ (ctxDone /\ pc = "handle" /\ pc' # "handle" /\ dpc' # "crashed") =>
          /\ calls' = Append(calls, cur)
          /\ pc' \in {"store", "ret"}

\* C12 (as claimed): once the context is done no handler call starts, and a
\* handler call in flight when the context becomes done is not aborted: it
\* returns its own result to Process.
C12_NoHandlerCallStartsAfterCancel == [][C12_CancelStep]_vars

C13_RunStep ==
    /\ (dpc = "process" /\ pc = "ret" /\ ret # "nil" /\ dpc' # dpc) =>
          IF retry THEN dpc' = "sleep" ELSE dpc' = "exitErr"
    /\ (dpc = "sleep" /\ dpc' # dpc) => dpc' = "check"
    /\ (dpc = "check" /\ dpc' # dpc) =>
          IF ctxDone THEN dpc' = "exitNil"
          ELSE dpc' = "process" /\ pc' = "subscribe"
    /\ (dpc' = "exitNil" /\ dpc # dpc') => (dpc = "check" /\ ctxDone)
    /\ (dpc' = "exitErr" /\ dpc # dpc') => (~retry /\ ret # "nil")

\* C13: when ProcessAssets returns an error, run returns it if
\* RetryDuration is zero and otherwise sleeps, and after the sleep calls
\* ProcessAssets again, which subscribes anew, unless the context is done; run
\* returns nil only at the select that finds the context done, and returns
\* no error while RetryDuration is not zero.
C13_RetryOrExit ==
    /\ [][C13_RunStep]_vars
    /\ (dpc = "process" /\ pc = "ret" /\ ret # "nil" /\ retry) ~>
          (dpc = "exitNil" \/ (dpc = "process" /\ pc = "subscribe"))

\* A run that failed on a handler error is followed by a run that handled
\* the same message
C13_Witness ==
    /\ retry
    /\ prevFail = 1
    /\ dpc = "process"
    /\ calls = <<1>>

\* Subscribe, ReadMessage or StoreMessage fails
BrokerFails == pc' = "ret" /\ ret' \in {"errSubscribe", "errRead", "errStore"}

\* ReadMessage times out although a message is waiting
BrokerIdles == pc = "poll" /\ pos < Len(topic) /\ pc' = "loop"

\* The handler call for message k returns an error
FailsAt(k) == pc = "handle" /\ cur = k /\ pc' = "ret"

C14_Blocked ==
    /\ \A k \in 1..Len(topic) : k \notin handledOK =>
          /\ committed < k
          /\ stored < k
          /\ pos <= k
          /\ \A i \in 1..Len(calls) : calls[i] <= k
    /\ (prevFail > 0 /\ prevFail \notin handledOK /\ calls # <<>>) =>
          /\ calls[1] <= prevFail
          /\ calls[Len(calls)] <= prevFail

\* C14: with retry enabled, a message whose handler call failed is not
\* passed: the offsets stay before it, the next run that delivers anything
\* starts at or before it, and no run handles a later message unless it has
\* handled this one with success.  And when the context stays open, the
\* broker ends up serving and message 1 ends up succeeding, message 2 is
\* handled.
C14_FailingMessageBlocksTheStream ==
    /\ []C14_Blocked
    /\ ( /\ [](retry /\ ~ctxDone)
         /\ <>(Len(topic) = MaxLiveLog)
         /\ <>[][~BrokerFails /\ ~BrokerIdles]_vars
         /\ <>[][~FailsAt(1)]_vars )
       => <>(2 \in Range(calls))

\* The run after a failure at message 1 handled 1 with success and then 2
C14_Witness ==
    /\ retry
    /\ prevFail = 1
    /\ calls = <<1, 2>>
    /\ 1 \in runOK
    /\ 2 \notin handledOK

\* Value of the metadata entry key of a message: the one of the last entry
\* with that key, empty when there is none
EntryOf(m, key) ==
    LET idx == {i \in DOMAIN m.Metadata : m.Metadata[i].Key = key}
    IN  IF idx = {} THEN <<>>
        ELSE m.Metadata[CHOOSE i \in idx : \A j \in idx : j <= i].Value

LacksEntry(m) ==
    \E key \in {"version", "type", "identifier"} : EntryOf(m, key) = <<>>

\* C15: a message that lacks the version, the type or the identifier entry,
\* or carries it with an empty value, makes ProcessAssets return an error
\* and is not given to the asset handler, whatever its key, its value and
\* its other entries.
C15_MissingMetadataFails ==
    \A i \in 1..Len(calls) :
       LacksEntry(topic[calls[i]]) =>
          /\ \A j \in 1..Len(acalls) : acalls[j].off # calls[i]
          /\ i = Len(calls)
          /\ pc = "ret"
          /\ ret \notin {"nil", "none"}

\* A well-formed upsert but for an identifier entry of empty value has been
\* through ProcessAssets
C15_Witness ==
    /\ calls = <<1>>
    /\ topic[1].Value.kind = "json"
    /\ topic[1].Key = MsgKey(TeamT1, IdentA)
    /\ EntryOf(topic[1], "version") = V020
    /\ EntryOf(topic[1], "type") = HostnameT
    /\ \E i \in DOMAIN topic[1].Metadata :
          topic[1].Metadata[i] = [Key |-> "identifier", Value |-> <<>>]
    /\ EntryOf(topic[1], "identifier") = <<>>

\* The message cannot be decoded: an entry is missing, the value is neither
\* null nor a payload, or the value is null and the key is not team/asset
DecodeFails(m) ==
    \/ LacksEntry(m)
    \/ m.Value.kind = "bad"
    \/ (m.Value.kind = "nil" /\ Len(Split(m.Key, "/")) # 2)

\* Index of the first message of the MockProcessor that cannot be decoded, or 0
FirstFailure ==
    LET F == {i \in DOMAIN topic : DecodeFails(topic[i])}
    IN  IF F = {} THEN 0 ELSE CHOOSE i \in F : \A j \in F : i <= j

\* C16 (as claimed): when the asset handler returns nil, a ProcessAssets run
\* over messages of which one cannot be decoded returns an error, has been
\* through every message up to the first such one and through none after it,
\* and has invoked the asset handler in stream order for the messages before
\* it (those of a supported version).
C16_HandledUpToFirstDecodeFailure ==
    (pc = "ret" /\ ret # "errHandler" /\ FirstFailure > 0) =>
       /\ ret # "nil"
       /\ calls = [i \in 1..FirstFailure |-> i]
       /\ \A i \in 1..(FirstFailure - 1) : i \in runOK
       /\ \A j \in 1..Len(acalls) :
             /\ acalls[j].off < FirstFailure
             /\ j > 1 => acalls[j - 1].off < acalls[j].off
       /\ \A i \in 1..(FirstFailure - 1) :
             supportedVersion(VersionOf(topic[i])) =>
                \E j \in 1..Len(acalls) : acalls[j].off = i

\* The asset handler has been invoked for message i and has returned an error
HandlerFailedAt(i) ==
    /\ \E j \in 1..Len(acalls) : acalls[j].off = i
    /\ i \notin runOK

\* C17: once the asset handler has returned an error for a message, the run
\* has ended, that message is the last one given to the handler, and what
\* ProcessAssets returns is the handler's error: the very error over a
\* MockProcessor, and over an AloProcessor an error that wraps it behind
\* "error processing message: ", with the message's offset not stored.
C17_HandlerErrorStopsTheRun ==
    \A i \in 1..Len(topic) :
       HandlerFailedAt(i) =>
          /\ pc = "ret"
          /\ calls[Len(calls)] = i
          /\ acalls[Len(acalls)].off = i
          /\ dpc = "testMock" => ret = "errHandler"
          /\ dpc = "testAlo" =>
                /\ ret # "errHandler"
                /\ SubSeq(ret, 1, 26) = "error processing message: "
                /\ SubSeq(ret, 27, Len(ret)) = "errHandler"
                /\ stored < i

\* Over an AloProcessor the asset handler failed on the third message after
\* two successes
C17_Witness ==
    /\ dpc = "testAlo"
    /\ HandlerFailedAt(3)
    /\ Len(acalls) = 3
    /\ stored = 2

\* C18: the asset handler gets isNil = TRUE exactly for a message of null
\* value; its payload then holds the type and identifier of the metadata, the
\* team ID and the asset ID that stand before and after the "/" of the key,
\* and nothing else.  For another value isNil is FALSE and the payload is
\* the unmarshalled value.
C18_TombstonePayloadFromKeyAndMetadata ==
    \A j \in 1..Len(acalls) :
       LET m == topic[acalls[j].off]
           p == acalls[j].payload
       IN  /\ acalls[j].isNil <=> m.Value.kind = "nil"
           /\ m.Value.kind = "nil" =>
                 /\ p.AssetType = EntryOf(m, "type")
                 /\ p.Identifier = EntryOf(m, "identifier")
                 /\ m.Key = p.Team.ID \o <<"/">> \o p.ID
                 /\ "/" \notin Range(p.Team.ID) \cup Range(p.ID)
                 /\ p.Team.Name = <<>>
                 /\ p.Annotations = <<>>
           /\ m.Value.kind # "nil" => p = m.Value.body

\* The asset handler has been given the tombstone of key t1/a
C18_Witness ==
    /\ Len(acalls) = 1
    /\ acalls[1].isNil
    /\ topic[1].Key = MsgKey(TeamT1, IdentA)
    /\ acalls[1].payload.Team.ID = TeamT1
    /\ acalls[1].payload.ID = IdentA
    /\ acalls[1].payload.AssetType = HostnameT

\* The part of a string that stands before its first dot
BeforeDot(s) ==
    LET dots == {i \in DOMAIN s : s[i] = "."}
    IN  IF dots = {} THEN s
        ELSE SubSeq(s, 1, (CHOOSE i \in dots : \A j \in dots : i <= j) - 1)

\* A decimal numeral of value zero, with or without a sign
IsZero(s) ==
    LET body == IF s # <<>> /\ s[1] \in {"+", "-"} THEN SubSeq(s, 2, Len(s)) ELSE s
    IN  body # <<>> /\ \A i \in DOMAIN body : body[i] = "0"

\* C19: supportedVersion(v) is TRUE exactly when v, without one leading v if
\* it has one, holds two dots at least and what stands before the first dot
\* is a numeral of value 0; so it is for v0.2.3, 0.2.3 and 00.2.3 and not
\* for 11.2.3, 0.2 and the empty string.
C19_SupportedVersion ==
    output.fn = "supportedVersion" =>
       LET w == IF input # <<>> /\ input[1] = "v"
                THEN SubSeq(input, 2, Len(input)) ELSE input
       IN  /\ output.ok <=>
                 /\ Cardinality({i \in DOMAIN w : w[i] = "."}) >= 2
                 /\ IsZero(BeforeDot(w))
           /\ input \in { <<"v", "0", ".", "2", ".", "3">>,
                           <<"0", ".", "2", ".", "3">>,
                           <<"0", "0", ".", "2", ".", "3">> } => output.ok
           /\ input \in { <<"1", "1", ".", "2", ".", "3">>, <<"0", ".", "2">>,
                           <<>> } => ~output.ok

\* supportedVersion has been called on 00.2.3 and has returned true
C19_Witness ==
    /\ input = <<"0", "0", ".", "2", ".", "3">>
    /\ output = [fn |-> "supportedVersion", ok |-> TRUE]

\* Twelve decimal digits
IsAccountNumber(d) == Len(d) = 12 /\ \A i \in DOMAIN d : d[i] \in Digits

\* arn:aws:iam::d:root for twelve decimal digits d
IsAccountArn(s) ==
    \E d \in {SubSeq(s, 14, Len(s) - 5)} :
       IsAccountNumber(d) /\ s = ArnPrefix \o d \o ArnSuffix

\* C20: normalizeAWSAccountID maps twelve digits d to arn:aws:iam::d:root and
\* arn:aws:iam::d:root to itself, both without error; called on its own
\* result it returns that result; and for any other input it returns an
\* error and the empty string, as for 12345abc9012 and
\* arn:aws:iam::12345abc9012:root.
C20_NormalizeAWSAccountID ==
    /\ output.fn = "normalizeAWSAccountID" =>
          /\ IsAccountNumber(input) =>
                (~output.err /\ output.id = ArnPrefix \o input \o ArnSuffix)
          /\ IsAccountArn(input) => (~output.err /\ output.id = input)
          /\ ~(IsAccountNumber(input) \/ IsAccountArn(input)) =>
                (output.err /\ output.id = <<>>)
          /\ input \in {TestBadAccount, ArnPrefix \o TestBadAccount \o ArnSuffix} =>
                (output.err /\ output.id = <<>>)
    /\ output.fn = "again" =>
          /\ ~output.err
          /\ output.id = output.first
          /\ IsAccountArn(output.id)

\* 123456789012 has been normalized, and its result normalized again
C20_Witness ==
    /\ input = TestAccount
    /\ output.fn = "again"
    /\ output.first = ArnPrefix \o TestAccount \o ArnSuffix

\* The assets of the type and identifier of the last event, after it
NowAssets == Assets(graph, lastEv.payload.AssetType, lastEv.payload.Identifier)

\* The last event was an upsert and it was handled without error.
Upserted == ~lastEv.isNil /\ lastEv.err = "nil"

\* C21: after an upsert handled without error, exactly one asset has the
\* type and identifier of the event, its expiration is Unexpired and its
\* last-seen time is the time that upsertAsset read from the clock, whether
\* the asset was absent, live or expired before the event.
C21_UpsertLeavesOneLiveAsset ==
    Upserted =>
       /\ Len(NowAssets) = 1
       /\ graph.assets[NowAssets[1]].Expiration = Unexpired
       /\ graph.assets[NowAssets[1]].LastSeen = lastEv.nows[1]

C21_Witness ==
    /\ Upserted
    /\ Len(LastAssets) = 1
    /\ lastEv.prev.assets[LastAssets[1]].Expiration # Unexpired
    /\ lastEv.prev.assets[LastAssets[1]].LastSeen < lastEv.nows[1]

\* C22: from an empty inventory that only the asset handler writes, after
\* any upserts and retirements, replayed ones and ones that failed part-way
\* included, no two assets have the same type and identifier, no two teams
\* the same identifier, no two owns relations the same asset and team, and
\* no two parent-of relations the same child and parent.
C22_NoDuplicates ==
    /\ \A i, j \in 1..Len(graph.assets) :
          AssetKey(graph, i) = AssetKey(graph, j) => i = j
    /\ \A i, j \in 1..Len(graph.teams) :
          graph.teams[i].Identifier = graph.teams[j].Identifier => i = j
    /\ \A o1, o2 \in graph.owns :
          (o1.AssetID = o2.AssetID /\ o1.TeamID = o2.TeamID) => o1 = o2
    /\ \A e1, e2 \in graph.parents :
          (e1.ChildID = e2.ChildID /\ e1.ParentID = e2.ParentID) => e1 = e2

C22_Witness ==
    /\ lastEv.retried /\ lastEv.err = "nil"
    /\ lastEv.prev.assets # <<>> /\ lastEv.prev.owns = {}
    /\ Len(graph.assets) = 2 /\ graph.owns # {} /\ graph.parents # {}

\* How many assets had the type and identifier of the last event, and how
\* many teams its team identifier, before it
MatchingAssets ==
    Cardinality({i \in 1..Len(lastEv.prev.assets) :
                   AssetKey(lastEv.prev, i) =
                      <<lastEv.payload.AssetType, lastEv.payload.Identifier>>})

MatchingTeams ==
    Cardinality({i \in 1..Len(lastEv.prev.teams) :
                   lastEv.prev.teams[i].Identifier = lastEv.payload.Team.ID})

\* The last event was a retirement.
Retired == lastEv.isNil /\ lastEv.err # "none"

\* C23: a retirement whose type and identifier match no asset, or whose team
\* identifier matches no team, returns nil without a write to the inventory,
\* and Process goes on to store the offset of its message.
C23_UnmatchedRetirementIsNoOp ==
    (Retired /\ (MatchingAssets = 0 \/ MatchingTeams = 0)) =>
       /\ lastEv.err = "nil"
       /\ lastEv.writes = <<>>
       /\ graph = lastEv.prev
       /\ AfterHandler(lastEv.err) = "store"

C23_Witness ==
    /\ Retired
    /\ MatchingAssets = 1 /\ MatchingTeams = 0
    /\ lastEv.prev.teams # <<>>
    /\ \E o \in lastEv.prev.owns :
          AssetKey(lastEv.prev, o.AssetID) =
             <<lastEv.payload.AssetType, lastEv.payload.Identifier>>
          /\ o.EndTime = ZeroTime

\* The last event came to its team lookup: an upsert after its upsertAsset,
\* a retirement after it found its asset.
TeamLookedUp ==
    /\ lastEv.err # "none"
    /\ IF lastEv.isNil THEN MatchingAssets = 1 ELSE MatchingAssets < 2

\* C24: an upsert or a retirement whose type and identifier match several
\* assets fails with "duplicated asset" without a write to the inventory; one
\* whose team lookup finds several teams fails with "duplicated team"; and
\* Process returns on either error.
C24_DuplicatesAreFatal ==
    /\ (lastEv.err # "none" /\ MatchingAssets > 1) =>
          /\ lastEv.err = "duplicated asset"
          /\ lastEv.writes = <<>>
          /\ AfterHandler(lastEv.err) = "ret"
    /\ (TeamLookedUp /\ MatchingTeams > 1) =>
          /\ lastEv.err = "duplicated team"
          /\ \A i \in 1..Len(lastEv.writes) :
                lastEv.writes[i].op \in {"CreateAsset", "UpdateAsset"}
          /\ lastEv.isNil => lastEv.writes = <<>>
          /\ AfterHandler(lastEv.err) = "ret"

C24_Witness ==
    /\ Retired
    /\ MatchingAssets = 2 /\ MatchingTeams = 1
    /\ lastEv.prev.owns # {}
    /\ graph = lastEv.prev

\* Inventory g has every asset, team, owns and parent-of relation of g0.
Keeps(g0, g) ==
    /\ Len(g.assets) >= Len(g0.assets)
    /\ \A i \in 1..Len(g0.assets) : AssetKey(g, i) = AssetKey(g0, i)
    /\ Len(g.teams) >= Len(g0.teams)
    /\ \A i \in 1..Len(g0.teams) :
          g.teams[i].Identifier = g0.teams[i].Identifier
    /\ \A o0 \in g0.owns : \E o \in g.owns :
          o.AssetID = o0.AssetID /\ o.TeamID = o0.TeamID
    /\ \A e0 \in g0.parents : \E e \in g.parents :
          e.ChildID = e0.ChildID /\ e.ParentID = e0.ParentID

\* C25: an upsert or a retirement, handled to its end or failed part-way,
\* leaves every asset, team, owns relation and parent-of relation that the
\* inventory had in the inventory; what it writes are creations, updates and
\* upserts, and a retirement shows as end times and expirations only.
C25_NothingIsDeleted ==
    /\ Keeps(lastEv.prev, graph)
    /\ \A i \in 1..Len(lastEv.writes) :
          lastEv.writes[i].op \in {"CreateAsset", "UpdateAsset", "CreateTeam",
                                  "UpdateTeam", "UpsertOwner", "UpsertParent"}

C25_Witness ==
    /\ Retired /\ lastEv.err = "nil"
    /\ \E i \in 1..Len(lastEv.writes) : lastEv.writes[i].op = "UpsertOwner"
    /\ \E i \in 1..Len(lastEv.writes) : lastEv.writes[i].op = "UpdateAsset"
    /\ \E i \in 1..Len(lastEv.writes) : lastEv.writes[i].op = "UpsertParent"
    /\ lastEv.prev.parents # {}
    /\ \A o \in graph.owns : o.EndTime # ZeroTime

\* The last event was a retirement that found its asset and its team and was
\* handled without error.
RetiredMatched ==
    Retired /\ lastEv.err = "nil" /\ MatchingAssets = 1 /\ MatchingTeams = 1

\* C26: a retirement of asset A by team T gives the owns relation of A and T
\* the end time now if the relation had no end time, and leaves the end time
\* of a relation that had one, so that a retirement handled again does not
\* move the end time.
C26_EndedOwnsKeepsEndTime ==
    RetiredMatched =>
       \A o0 \in lastEv.prev.owns :
          (o0.AssetID = LastAssets[1] /\ o0.TeamID = LastTeams[1]) =>
             \E o \in graph.owns :
                /\ o.AssetID = o0.AssetID /\ o.TeamID = o0.TeamID
                /\ o.EndTime = IF o0.EndTime = ZeroTime THEN lastEv.nows[1]
                                ELSE o0.EndTime

\* C27: an upsert or a retirement writes an owns relation that the inventory
\* has with the start time it has, so the start time of an owns relation
\* stays the one it was created with.
C27_OwnsStartTimeIsFixed ==
    \A o0 \in lastEv.prev.owns : \E o \in graph.owns :
       /\ o.AssetID = o0.AssetID /\ o.TeamID = o0.TeamID
       /\ o.StartTime = o0.StartTime

C27_Witness ==
    /\ Upserted
    /\ MatchingAssets = 1 /\ MatchingTeams = 1
    /\ \E o0 \in lastEv.prev.owns :
          /\ o0.AssetID = LastAssets[1] /\ o0.TeamID = LastTeams[1]
          /\ o0.EndTime # ZeroTime
          /\ o0.StartTime < lastEv.nows[1]
          /\ [o0 EXCEPT !.EndTime = ZeroTime] \in graph.owns

\* The last event was a retirement that went on to expire its asset: no
\* other team has an owns relation without end time on it.
Cascaded ==
    /\ RetiredMatched
    /\ \A o \in lastEv.prev.owns :
          (o.AssetID = LastAssets[1] /\ o.TeamID # LastTeams[1])
             => o.EndTime # ZeroTime

\* The last event wrote the parent-of relation of e.
WroteParent(e) ==
    \E i \in 1..Len(lastEv.writes) :
       /\ lastEv.writes[i].op = "UpsertParent"
       /\ lastEv.writes[i].id = e.ChildID
       /\ lastEv.writes[i].other = e.ParentID

\* C28: a retirement that expires its asset writes no parent-of relation of
\* the asset whose expiration is now or earlier, and leaves it as it is; it
\* gives the expiration now to those whose expiration is later than now.
C28_ExpiredParentOfIsNotWritten ==
    Cascaded =>
       \A e0 \in lastEv.prev.parents :
          IF Touches(e0, LastAssets[1]) /\ e0.Expiration > lastEv.nows[1]
          THEN /\ WroteParent(e0)
               /\ \E e \in graph.parents :
                     /\ e.ChildID = e0.ChildID /\ e.ParentID = e0.ParentID
                     /\ e.Expiration = lastEv.nows[1]
          ELSE /\ ~WroteParent(e0)
               /\ e0 \in graph.parents

C28_Witness ==
    /\ Cascaded /\ lastEv.again
    /\ \E e0 \in lastEv.prev.parents :
          Touches(e0, LastAssets[1]) /\ e0.Expiration = lastEv.nows[1]
    /\ graph.parents = lastEv.prev.parents

\* The AWS accounts in the annotations of the last event: the values under
\* the configured key, in the long form
LastAccounts ==
    {IF IsAccountArn(a.Value) THEN a.Value
     ELSE ArnPrefix \o a.Value \o ArnSuffix :
       a \in {a \in Range(lastEv.payload.Annotations) :
                a.Key = AWSAccountAnnotationKey}}

\* The writes of a kind by the last event
LastWrites(ops) ==
    {i \in 1..Len(lastEv.writes) : lastEv.writes[i].op \in ops}

\* C29: an upsert handled without error has, for each annotation under the
\* configured key, upserted the asset of type AWSAccount with the value in
\* its long form as identifier, and written the parent-of relation from the
\* asset of the event to it with expiration Unexpired; it has written no
\* other asset besides its own and no other parent-of relation.
C29_AccountAnnotationsMakeParents ==
    Upserted =>
       /\ \A acc \in LastAccounts :
             LET ids == Assets(graph, AWSAccountT, acc)
             IN  /\ Len(ids) = 1
                 /\ \E i \in LastWrites({"CreateAsset", "UpdateAsset"}) :
                       /\ i > 1
                       /\ lastEv.writes[i].key = <<AWSAccountT, acc>>
                       /\ lastEv.writes[i].end = Unexpired
                 /\ \E e \in graph.parents :
                       /\ e.ChildID = NowAssets[1] /\ e.ParentID = ids[1]
                       /\ e.Expiration = Unexpired
                 /\ \A e1, e2 \in graph.parents :
                       (/\ e1.ChildID = NowAssets[1] /\ e1.ParentID = ids[1]
                        /\ e2.ChildID = NowAssets[1] /\ e2.ParentID = ids[1])
                          => e1 = e2
       /\ \A i \in LastWrites({"UpsertParent"}) :
             /\ lastEv.writes[i].id = NowAssets[1]
             /\ lastEv.writes[i].end = Unexpired
             /\ \E acc \in LastAccounts :
                   Assets(graph, AWSAccountT, acc) = <<lastEv.writes[i].other>>
       /\ \A i \in LastWrites({"CreateAsset", "UpdateAsset"}) :
             i > 1 => \E acc \in LastAccounts :
                        lastEv.writes[i].key = <<AWSAccountT, acc>>
       /\ Cardinality(LastWrites({"UpsertParent"})) =
             Cardinality({i \in DOMAIN lastEv.payload.Annotations :
                lastEv.payload.Annotations[i].Key = AWSAccountAnnotationKey})

C29_Witness ==
    /\ Upserted
    /\ Len(lastEv.payload.Annotations) = 2
    /\ Cardinality(LastAccounts) = 1
    /\ Cardinality(LastWrites({"UpsertParent"})) = 1
    /\ lastEv.prev.parents = {}

\* The dot-separated components of a version string without its leading v
Components(v) ==
    Split(IF v # <<>> /\ v[1] = "v" THEN Tail(v) ELSE v, ".")

\* C30: supportedVersion returns true only for a string whose first three
\* dot-separated components are all numeric; a string with a non-numeric
\* minor or patch component, such as 0.x.y, is not supported.
C30_SupportedHasThreeNumericComponents ==
    (output.fn = "supportedVersion" /\ output.ok) =>
       /\ Len(Components(input)) >= 3
       /\ \A i \in 1..3 : AtoiOK(Components(input)[i])

\* A step of Process from its ReadMessage: without a message it calls no
\* handler and stores no offset, and it either goes back to the head of the
\* loop or returns the error of the read.  A step from the head of the loop
\* looks at the context and either returns nil or polls.  What Process
\* returns is nil after a cancellation or one of its four errors.
C31_PollStep ==
    /\ (pc = "poll" /\ pc' \in {"loop", "ret"}) =>
          /\ calls' = calls /\ acalls' = acalls
          /\ stored' = stored /\ pos' = pos
          /\ pc' = "loop" => ret' = ret
          /\ pc' = "ret" => ret' = "errRead"
    /\ (pc = "loop" /\ pc' # "loop" /\ dpc' = dpc) =>
          /\ pc' = IF ctxDone THEN "ret" ELSE "poll"
          /\ calls' = calls /\ stored' = stored
    /\ (pc # "ret" /\ pc' = "ret") =>
          \/ ret' = "nil" /\ ctxDone /\ pc = "loop"
          \/ ret' = "errSubscribe" /\ pc = "subscribe"
          \/ ret' = "errRead" /\ pc = "poll"
          \/ ret' \in HandlerErrors /\ pc = "handle"
          \/ ret' = "errStore" /\ pc = "store"

\* C31: in Process a ReadMessage that times out calls no handler, stores no
\* offset and leads back to the check of the context and the next
\* ReadMessage; any other failure of ReadMessage makes Process return an
\* error at once, without a handler call.  Process returns only on a
\* cancelled context, on an error of the consumer, on an error of the
\* handler, or on an error of StoreMessage.
C31_TimeoutIsNotAnError == [][C31_PollStep]_vars

C31_Witness ==
    /\ pc = "ret" /\ ret = "errRead"
    /\ calls # <<>> /\ stored = cur
    /\ pos < Len(topic)
    /\ ~ctxDone

\* The writes of assets by the last event
AssetWrites == LastWrites({"CreateAsset", "UpdateAsset"})

\* C32: every expiration that the handler writes to an asset is Unexpired,
\* in an upsert, or the time of the event, in a retirement that finds no
\* other team with an owns relation without end time.  The time written is
\* not earlier than the last-seen time of the asset, which no event moves
\* back and which is the expiration of every expired asset: so it is not
\* earlier than any expiration written to the asset before.
C32_ExpirationsMoveForward ==
    /\ \A i \in AssetWrites :
          IF lastEv.isNil
          THEN /\ Cascaded
               /\ lastEv.writes[i].op = "UpdateAsset"
               /\ lastEv.writes[i].id = LastAssets[1]
               /\ lastEv.writes[i].end = lastEv.nows[1]
               /\ lastEv.writes[i].end >= lastEv.prev.assets[LastAssets[1]].LastSeen
          ELSE lastEv.writes[i].end = Unexpired
    /\ \A i \in 1..Len(lastEv.prev.assets) :
          graph.assets[i].LastSeen >= lastEv.prev.assets[i].LastSeen
    /\ \A i \in 1..Len(graph.assets) :
          graph.assets[i].Expiration # Unexpired =>
             graph.assets[i].Expiration = graph.assets[i].LastSeen

\* An expired asset is expired again at a later time
C32_Witness ==
    /\ Cascaded
    /\ AssetWrites # {}
    /\ lastEv.prev.assets[LastAssets[1]].Expiration # Unexpired
    /\ lastEv.prev.assets[LastAssets[1]].Expiration < lastEv.nows[1]
    /\ graph.assets[LastAssets[1]].Expiration = lastEv.nows[1]

\* C33: in every state of the inventory, the states between the writes of
\* one event included (an event that fails at an inventory call leaves the
\* inventory as its earlier writes made it), an asset that has expired has
\* no owns relation without end time.
C33_ExpiredAssetHasNoActiveOwner ==
    \A o \in graph.owns :
       o.EndTime = ZeroTime => graph.assets[o.AssetID].Expiration = Unexpired

\* An upsert of an expired asset failed after it made the asset live again
\* and before it wrote the owns relation.
C33_Witness ==
    /\ ~lastEv.isNil /\ lastEv.err \notin {"nil", "none"}
    /\ MatchingAssets = 1
    /\ lastEv.prev.assets[LastAssets[1]].Expiration # Unexpired
    /\ graph.assets[LastAssets[1]].Expiration = Unexpired
    /\ graph.owns = lastEv.prev.owns
    /\ graph.owns # {}

\* The last event was a retirement by a team without owns relation on the
\* asset, while no other team had one without end time.
RetiredByNonOwner ==
    /\ Cascaded
    /\ \A o \in lastEv.prev.owns :
          ~(o.AssetID = LastAssets[1] /\ o.TeamID = LastTeams[1])

\* C34: a retirement of asset A by a team that exists and has no owns
\* relation on A, while no other team has one without end time, expires A
\* at the time of the event and with it every parent-of relation of A that
\* had not expired; it writes no owns relation.
C34_RetirementByNonOwnerExpires ==
    RetiredByNonOwner =>
       /\ graph.assets[LastAssets[1]].Expiration = lastEv.nows[1]
       /\ \A e0 \in lastEv.prev.parents :
             (Touches(e0, LastAssets[1]) /\ e0.Expiration > lastEv.nows[1]) =>
                \E e \in graph.parents :
                   /\ e.ChildID = e0.ChildID /\ e.ParentID = e0.ParentID
                   /\ e.Expiration = lastEv.nows[1]
       /\ LastWrites({"UpsertOwner"}) = {}
       /\ graph.owns = lastEv.prev.owns

\* An AWS account that came from an annotation, with no owns relation, is
\* retired by an existing team.
C34_Witness ==
    /\ RetiredByNonOwner
    /\ lastEv.payload.AssetType = AWSAccountT
    /\ \A o \in lastEv.prev.owns : o.AssetID # LastAssets[1]
    /\ lastEv.prev.assets[LastAssets[1]].Expiration = Unexpired
    /\ \E e \in lastEv.prev.parents :
          e.ParentID = LastAssets[1] /\ e.Expiration = Unexpired
    /\ \A e \in graph.parents : e.Expiration = lastEv.nows[1]

\* The annotations of the last event under the configured key
AccountAnnotations ==
    SelectSeq(lastEv.payload.Annotations,
              LAMBDA a : a.Key = AWSAccountAnnotationKey)

ValidAccount(v) == IsAccountNumber(v) \/ IsAccountArn(v)

\* How many of them come before the first that is no AWS account
ValidBefore ==
    Cardinality({i \in DOMAIN AccountAnnotations :
                   \A j \in 1..i : ValidAccount(AccountAnnotations[j].Value)})

\* The last event was an upsert with an annotation under the configured key
\* whose value is no AWS account.
UpsertedInvalid ==
    /\ ~lastEv.isNil /\ lastEv.err # "none"
    /\ ValidBefore < Len(AccountAnnotations)

\* C35: an upsert with an annotation under the configured key whose value
\* cannot be normalized returns its error after it has written the asset,
\* the team, the owns relation and, for each such annotation before the
\* invalid one, the AWS account and the parent-of relation; these writes
\* stay in the inventory, and Process returns the error without storing the
\* offset of the message.
C35_InvalidAnnotationFailsAfterWrites ==
    UpsertedInvalid =>
       /\ lastEv.err = "could not normalize AWS account ID"
       /\ Len(lastEv.writes) = 3 + 2 * ValidBefore
       /\ lastEv.writes[1].op \in {"CreateAsset", "UpdateAsset"}
       /\ lastEv.writes[2].op \in {"CreateTeam", "UpdateTeam"}
       /\ lastEv.writes[3].op = "UpsertOwner"
       /\ \A i \in 1..ValidBefore :
             /\ lastEv.writes[2 + 2 * i].op \in {"CreateAsset", "UpdateAsset"}
             /\ lastEv.writes[3 + 2 * i].op = "UpsertParent"
       /\ Len(NowAssets) = 1
       /\ graph.assets[NowAssets[1]].Expiration = Unexpired
       /\ graph.assets[NowAssets[1]].LastSeen = lastEv.nows[1]
       /\ \E t \in 1..Len(graph.teams) :
             /\ graph.teams[t].Identifier = lastEv.payload.Team.ID
             /\ \E o \in graph.owns :
                   o.AssetID = NowAssets[1] /\ o.TeamID = t
                   /\ o.EndTime = ZeroTime
       /\ \A i \in LastWrites({"UpsertParent"}) :
             \E e \in graph.parents :
                /\ e.ChildID = NowAssets[1]
                /\ e.ParentID = lastEv.writes[i].other
                /\ e.Expiration = Unexpired
                /\ graph.assets[e.ParentID].Type = AWSAccountT
                /\ graph.assets[e.ParentID].Expiration = Unexpired
       /\ AfterHandler(lastEv.err) = "ret"

\* The invalid annotation comes after a valid one, on an asset that had
\* expired.
C35_Witness ==
    /\ UpsertedInvalid
    /\ ValidBefore = 1
    /\ MatchingAssets = 1
    /\ lastEv.prev.assets[LastAssets[1]].Expiration # Unexpired
    /\ lastEv.prev.parents = {}
    /\ graph.parents # {}

\* The type and identifier of the asset of the last event and of the AWS
\* accounts in its annotations
UpsertKeys ==
    {<<lastEv.payload.AssetType, lastEv.payload.Identifier>>}
    \cup {<<AWSAccountT, acc>> : acc \in LastAccounts}

\* C36: an upsert, handled to its end or not, writes every asset and every
\* parent-of relation with expiration Unexpired and every owns relation
\* without end time.  It writes the asset of the event, its team, the owns
\* relation between them, the AWS accounts of its annotations and the
\* parent-of relations from the asset to them, and leaves every other asset,
\* team, owns relation and parent-of relation as it is, the parent-of
\* relation to an account that its annotations name no more included.
C36_UpsertRetiresNothing ==
    (~lastEv.isNil /\ lastEv.err # "none") =>
       /\ \A i \in AssetWrites :
             /\ lastEv.writes[i].end = Unexpired
             /\ lastEv.writes[i].key \in UpsertKeys
       /\ \A i \in LastWrites({"CreateTeam", "UpdateTeam"}) :
             lastEv.writes[i].key[1] = lastEv.payload.Team.ID
       /\ \A i \in LastWrites({"UpsertOwner"}) :
             /\ lastEv.writes[i].end = ZeroTime
             /\ lastEv.writes[i].id = NowAssets[1]
             /\ graph.teams[lastEv.writes[i].other].Identifier =
                   lastEv.payload.Team.ID
       /\ \A i \in LastWrites({"UpsertParent"}) :
             /\ lastEv.writes[i].end = Unexpired
             /\ lastEv.writes[i].id = NowAssets[1]
             /\ AssetKey(graph, lastEv.writes[i].other) \in
                   {<<AWSAccountT, acc>> : acc \in LastAccounts}
       /\ \A i \in 1..Len(lastEv.prev.assets) :
             AssetKey(lastEv.prev, i) \notin UpsertKeys =>
                graph.assets[i] = lastEv.prev.assets[i]
       /\ \A i \in 1..Len(lastEv.prev.teams) :
             lastEv.prev.teams[i].Identifier # lastEv.payload.Team.ID =>
                graph.teams[i] = lastEv.prev.teams[i]
       /\ \A o \in lastEv.prev.owns :
             ~(/\ AssetKey(lastEv.prev, o.AssetID) =
                    <<lastEv.payload.AssetType, lastEv.payload.Identifier>>
               /\ lastEv.prev.teams[o.TeamID].Identifier =
                    lastEv.payload.Team.ID)
                => o \in graph.owns
       /\ \A e \in lastEv.prev.parents :
             ~(/\ AssetKey(lastEv.prev, e.ChildID) =
                    <<lastEv.payload.AssetType, lastEv.payload.Identifier>>
               /\ AssetKey(lastEv.prev, e.ParentID) \in
                    {<<AWSAccountT, acc>> : acc \in LastAccounts})
                => e \in graph.parents

\* An upsert without annotation of an asset that has a parent-of relation
\* from an earlier upsert and another team's owns relation
C36_Witness ==
    /\ Upserted
    /\ lastEv.payload.Annotations = <<>>
    /\ MatchingAssets = 1
    /\ \E e \in lastEv.prev.parents :
          /\ e.ChildID = LastAssets[1]
          /\ e.LastSeen < lastEv.nows[1]
          /\ e \in graph.parents
    /\ \E o \in lastEv.prev.owns :
          /\ o.AssetID = LastAssets[1]
          /\ lastEv.prev.teams[o.TeamID].Identifier # lastEv.payload.Team.ID
          /\ o \in graph.owns
    /\ graph # lastEv.prev

\* C37: an upsert makes its asset live and writes parent-of relations only
\* from its asset: the relations to it stay as they are, expired if a
\* retirement of the asset had expired them.  A parent-of relation that has
\* expired becomes unexpired only in an upsert of its child that names the
\* parent in an annotation.
C37_UpsertOfParentLeavesChildrenExpired ==
    /\ Upserted =>
          /\ graph.assets[NowAssets[1]].Expiration = Unexpired
          /\ \A e \in lastEv.prev.parents :
                e.ChildID # NowAssets[1] => e \in graph.parents
    /\ \A e0 \in lastEv.prev.parents : \A e \in graph.parents :
          (/\ e.ChildID = e0.ChildID /\ e.ParentID = e0.ParentID
           /\ e0.Expiration # Unexpired /\ e.Expiration = Unexpired) =>
             /\ ~lastEv.isNil
             /\ AssetKey(graph, e.ChildID) =
                   <<lastEv.payload.AssetType, lastEv.payload.Identifier>>
             /\ AssetKey(graph, e.ParentID) \in
                   {<<AWSAccountT, acc>> : acc \in LastAccounts}

\* An asset that expired together with the parent-of relation to it is
\* upserted again.
C37_Witness ==
    /\ Upserted
    /\ MatchingAssets = 1
    /\ lastEv.prev.assets[LastAssets[1]].Expiration # Unexpired
    /\ graph.assets[LastAssets[1]].Expiration = Unexpired
    /\ \E e \in graph.parents :
          /\ e.ParentID = LastAssets[1] /\ e.ChildID # LastAssets[1]
          /\ e.Expiration = lastEv.prev.assets[LastAssets[1]].Expiration

\* With the context done, a handler call that returns nil is followed by
\* StoreMessage, which stores the offset of the message unless it fails;
\* when Process returns nil the offset store holds the offset of the last
\* message given to the handler, and when run ends on the done context that
\* offset is committed.
C38_CancelStep ==
    /\ (ctxDone /\ pc = "handle" /\ cur \in runOK') => pc' = "store"
    /\ (ctxDone /\ pc = "store" /\ pc' \notin {"store", "idle"}) =>
          \/ pc' = "loop" /\ stored' = cur /\ cur \in runStored'
          \/ pc' = "ret" /\ ret' = "errStore"
    /\ (pc' = "ret" /\ ret' = "nil") =>
          /\ runOK' \subseteq runStored'
          /\ calls' # <<>> => stored' = calls'[Len(calls')]
    /\ dpc' = "exitNil" => committed' = stored'

\* C38: when the context becomes done while a handler call is in flight and
\* the call returns nil, Process stores the offset of the message before it
\* returns nil, and the offset is committed when run ends: a run started
\* afterwards begins after that message.
C38_InFlightMessageIsStored == [][C38_CancelStep]_vars

\* The context is done and the handler has returned nil for a message whose
\* offset is not stored yet.
C38_Witness ==
    /\ ctxDone
    /\ pc = "store"
    /\ cur \in runOK
    /\ stored < cur
    /\ cur = Len(topic)

\* Number of "/" in a key
Slashes(key) == Cardinality({i \in DOMAIN key : key[i] = "/"})

\* Message i carries the three metadata entries and a supported version
WellFormed(i) ==
    /\ ~parseMetadata(topic[i]).err
    /\ supportedVersion(VersionOf(topic[i]))

\* The asset handler has been invoked for message i
Invoked(i) == \E j \in 1..Len(acalls) : acalls[j].off = i

\* C39: for a message of null value with valid metadata and a supported
\* version, the asset handler is invoked exactly when the key holds one "/"
\* (two parts); with any other key ProcessAssets returns the message ID error
\* and the handler is not invoked.  For a non-null value the key plays no
\* part: a value that unmarshals reaches the handler whatever the key, and
\* one that does not yields the unmarshal error.
C39_KeyCheckedOnlyForTombstones ==
    \A k \in 1..Len(calls) :
       LET i == calls[k]
           m == topic[i]
       IN  WellFormed(i) =>
              /\ m.Value.kind = "nil" =>
                    /\ Invoked(i) <=> Slashes(m.Key) = 1
                    /\ Slashes(m.Key) # 1 =>
                          /\ pc = "ret"
                          /\ ret = "errMessageID"
                          /\ i \notin runOK
              /\ m.Value.kind = "json" => Invoked(i)
              /\ m.Value.kind = "bad" =>
                    /\ ~Invoked(i)
                    /\ pc = "ret"
                    /\ ret = "errUnmarshal"

\* A tombstone with the three-part key t1/t2/a has made ProcessAssets return
\* the message ID error without a call of the asset handler
C39_Witness ==
    /\ calls = <<1>>
    /\ WellFormed(1)
    /\ topic[1].Value.kind = "nil"
    /\ topic[1].Key = MsgKey(TeamT1, MsgKey(TeamT2, IdentA))
    /\ acalls = <<>>
    /\ pc = "ret"
    /\ ret = "errMessageID"

====
